---- MODULE Spec2Model ----
(***************************************************************************)
(* The App/Function catalog of aci: the rows of the apps and functions     *)
(* tables, the CRUD operations of aci/common/db/crud/apps.py and           *)
(* aci/common/db/crud/functions.py, and the lookups that resolve a bare    *)
(* name to one row under the visibility, activation and ownership rules.   *)
(*                                                                         *)
(* A query without ORDER BY yields its rows in an order the storage engine *)
(* chooses; every read action draws that order (the scan) from all the     *)
(* orders of the table's rows.                                             *)
(***************************************************************************)
EXTENDS Integers, Sequences, FiniteSets, TLC

VARIABLES
    apps,            \* the rows of the apps table
    functions,       \* the rows of the functions table
    nextId,          \* the next fresh App id
    nextFunctionId,  \* the next fresh Function id
    last,            \* the last call: its arguments and what it returned
    app_configurations,  \* the rows of the app_configurations table
    linked_accounts,     \* the rows of the linked_accounts table
    inflight,        \* the requests in progress, each with its position
    agents           \* the rows of the agents table

vars == <<apps, functions, nextId, nextFunctionId, last,
          app_configurations, linked_accounts, inflight, agents>>

\* Everything but the record of the last call.
vars_tables == <<apps, functions, nextId, nextFunctionId,
                 app_configurations, linked_accounts, inflight, agents>>

-----------------------------------------------------------------------------
(* Values *)

\* Python None / SQL NULL.
NULL == "NULL"

\* Visibility enum.
PUBLIC == "PUBLIC"
PRIVATE == "PRIVATE"
Visibilities == {PUBLIC, PRIVATE}

\* The platform fallback owner: UUID(os.getenv("LYZR_API_KEY_ID_DB")).
LYZR_API_KEY_ID_DB == "LYZR"

\* Tenant API keys. KC is a caller that never creates a row.
TenantKeys == {"KA", "KB"}
CallerKeys == TenantKeys \cup {"KC", LYZR_API_KEY_ID_DB, NULL}

\* Names are sequences of characters, so that the "__" delimiter can be split.
AppX == <<"X">>
FnXF == <<"X", "_", "_", "F">>
\* A function of the app Y, which is never stored.
FnYF == <<"Y", "_", "_", "F">>
\* Another function of the app X.
FnXG == <<"X", "_", "_", "G">>

\* Embedding vectors the provider may return.
Vectors == {<<1, 0>>, <<0, 1>>}
\* The None given in place of a vector.
NoVector == <<>>

\* An optional list of names: None, or the list items.
NoneList == [none |-> TRUE, items |-> <<>>]
ListOf(items) == [none |-> FALSE, items |-> items]

\* Bounds on the number of rows of each table.
MaxApps == 3
MaxFunctions == 2
\* Longest batch handed to create_functions / update_functions.
MaxBatch == 2
\* The largest Function id ever given.
MaxFunctionId == 3
MaxAppId == 5

-----------------------------------------------------------------------------
(* Sequences and storage order *)

Range(s) == {s[i] : i \in 1..Len(s)}

RECURSIVE Perms(_)
\* Every order in which the storage engine may yield the rows of S.
Perms(S) ==
    IF S = {} THEN {<<>>}
    ELSE UNION {{<<x>> \o p : p \in Perms(S \ {x})} : x \in S}

\* The None a lookup returns in place of a row (row ids start at 1).
NoRow == [id |-> 0]

\* Result.first(): the first row or None.
First(s) == IF s = <<>> THEN NoRow ELSE s[1]

-----------------------------------------------------------------------------
(* SQL three-valued logic, as the statements' WHERE and ORDER BY use it *)

\* column = value; a NULL column makes the comparison unknown.
SqlEq(col, val) ==
    IF col = NULL \/ val = NULL THEN "unknown"
    ELSE IF col = val THEN "true" ELSE "false"

\* or_(a, b)
SqlOr(a, b) ==
    IF a = "true" \/ b = "true" THEN "true"
    ELSE IF a = "unknown" \/ b = "unknown" THEN "unknown"
    ELSE "false"

\* SQLAlchemy renders (column == None) as column IS NULL.
ColumnEquals(col, val) ==
    IF val = NULL THEN (IF col = NULL THEN "true" ELSE "false")
    ELSE SqlEq(col, val)

-----------------------------------------------------------------------------
(* Pydantic models: AppUpsert and FunctionUpsert *)

\* An upsert is [values, fields_set]: the value of every field (a field not
\* given holds its default) and the names of the fields explicitly set.
\* Only these fields may hold None.
NullableFields == {"logo"}

\* model_dump(mode="json", exclude_none=True)
ModelDumpExcludeNone(upsert) ==
    LET kept == {f \in DOMAIN upsert.values :
                   ~(f \in NullableFields /\ upsert.values[f] = NULL)}
    IN  [f \in kept |-> upsert.values[f]]

\* model_dump(mode="json", exclude_unset=True)
ModelDumpExcludeUnset(upsert) ==
    [f \in upsert.fields_set |-> upsert.values[f]]

\* for field, value in data.items(): setattr(row, field, value)
SetAttrs(row, data) ==
    [c \in DOMAIN row |-> IF c \in DOMAIN data THEN data[c] ELSE row[c]]

AppColumns ==
    {"id", "name", "display_name", "description", "logo", "categories",
     "visibility", "active", "embedding", "api_key_id", "security_schemes"}

FunctionColumns ==
    {"id", "app_id", "name", "visibility", "active", "embedding", "api_key_id"}

-----------------------------------------------------------------------------
(* crud/apps.py *)

\* Faulty variant of OwnerOrFallback: the fallback owner taken to be the rows
\* without an owner (api_key_id IS NULL).
OwnerOrFallback_NullFallback(row, api_key_id) ==
    SqlOr(SqlEq(row.api_key_id, api_key_id), ColumnEquals(row.api_key_id, NULL))

\* Faulty variant of OwnerOrFallback: the ownership filter left out.
OwnerOrFallback_NoFilter(row, api_key_id) == "true"

\* Line 83: or_(App.api_key_id == api_key_id, App.api_key_id == LYZR_API_KEY_ID_DB)
OwnerOrFallback(row, api_key_id) ==
    SqlOr(SqlEq(row.api_key_id, api_key_id),
          SqlEq(row.api_key_id, LYZR_API_KEY_ID_DB))

\* Faulty variant of OrderByOwnerMatchDesc: ascending order (.desc() left out;
\* PostgreSQL sorts ASC with false, then true, then NULLS LAST).
OrderByOwnerMatch_Asc(rows, api_key_id) ==
    SelectSeq(rows, LAMBDA r: SqlEq(r.api_key_id, api_key_id) = "false")
    \o SelectSeq(rows, LAMBDA r: SqlEq(r.api_key_id, api_key_id) = "true")
    \o SelectSeq(rows, LAMBDA r: SqlEq(r.api_key_id, api_key_id) = "unknown")

\* Line 85: order_by((App.api_key_id == api_key_id).desc()); PostgreSQL sorts
\* DESC with NULLS FIRST, then true, then false.
OrderByOwnerMatchDesc(rows, api_key_id) ==
    SelectSeq(rows, LAMBDA r: SqlEq(r.api_key_id, api_key_id) = "unknown")
    \o SelectSeq(rows, LAMBDA r: SqlEq(r.api_key_id, api_key_id) = "true")
    \o SelectSeq(rows, LAMBDA r: SqlEq(r.api_key_id, api_key_id) = "false")

\* get_app over the rows of apps in storage order scan.
get_app(scan, app_name, public_only, active_only, api_key_id) ==
    LET named == SelectSeq(scan, LAMBDA r: r.name = app_name)
        act == IF active_only THEN SelectSeq(named, LAMBDA r: r.active)
               ELSE named
        pub == IF public_only
               THEN SelectSeq(act, LAMBDA r: r.visibility = PUBLIC)
               ELSE act
        own == IF api_key_id # NULL
               THEN OrderByOwnerMatchDesc(
                        SelectSeq(pub, LAMBDA r:
                                    OwnerOrFallback(r, api_key_id) = "true"),
                        api_key_id)
               ELSE pub
    IN  First(own)

\* Faulty variant of get_app_by_name_and_api_key_id: the name is not tested.
get_app_by_name_and_api_key_id_AnyName(rows, app_name, api_key_id) ==
    LET found == {r \in rows :
                    ColumnEquals(r.api_key_id, api_key_id) = "true"}
    IN  IF found = {} THEN NoRow ELSE CHOOSE r \in found : TRUE

\* get_app_by_name_and_api_key_id: scalar_one_or_none() of the rows with the
\* name and the owner; the pair is unique among the stored rows.
get_app_by_name_and_api_key_id(rows, app_name, api_key_id) ==
    LET found == {r \in rows : /\ r.name = app_name
                               /\ ColumnEquals(r.api_key_id, api_key_id) = "true"}
    IN  IF found = {} THEN NoRow ELSE CHOOSE r \in found : TRUE

\* create_app: the row added for app_upsert. A column the dumped data does
\* not name keeps its default, NULL.
\* Faulty variant of create_app: the row takes the id given last.
create_app_ReusedId(app_upsert, app_embedding, api_key_id, id) ==
    LET app_data == ModelDumpExcludeNone(app_upsert)
    IN  [c \in AppColumns |->
           CASE c = "id" -> IF id > 1 THEN id - 1 ELSE id
             [] c = "embedding" -> app_embedding
             [] c = "api_key_id" -> api_key_id
             [] c \in DOMAIN app_data -> app_data[c]
             [] OTHER -> NULL]

create_app(app_upsert, app_embedding, api_key_id, id) ==
    LET app_data == ModelDumpExcludeNone(app_upsert)
    IN  [c \in AppColumns |->
           CASE c = "id" -> id
             [] c = "embedding" -> app_embedding
             [] c = "api_key_id" -> api_key_id
             [] c \in DOMAIN app_data -> app_data[c]
             [] OTHER -> NULL]

\* Faulty variant of set_app_active_status: the rows of an owner key are
\* left alone.
set_app_active_status_UnownedOnly(rows, app_name, active) ==
    {IF r.name = app_name /\ r.api_key_id = NULL
     THEN [r EXCEPT !.active = active] ELSE r : r \in rows}

\* set_app_active_status: UPDATE apps SET active WHERE name = app_name.
set_app_active_status(rows, app_name, active) ==
    {IF r.name = app_name THEN [r EXCEPT !.active = active] ELSE r : r \in rows}

\* set_app_visibility: UPDATE apps SET visibility WHERE name = app_name.
set_app_visibility(rows, app_name, visibility) ==
    {IF r.name = app_name THEN [r EXCEPT !.visibility = visibility] ELSE r
       : r \in rows}

-----------------------------------------------------------------------------
(* common/utils.py *)

RECURSIVE parse_app_name_from_function_name(_)
\* function_name.split("__")[0]: the characters before the first "__".
parse_app_name_from_function_name(function_name) ==
    IF Len(function_name) < 2 THEN function_name
    ELSE IF function_name[1] = "_" /\ function_name[2] = "_" THEN <<>>
    ELSE <<function_name[1]>>
         \o parse_app_name_from_function_name(Tail(function_name))

-----------------------------------------------------------------------------
(* crud/functions.py *)

\* get_function_by_name_and_api_key_id: scalars().first() of the rows with
\* the name and the owner; the pair is unique among the stored rows.
get_function_by_name_and_api_key_id(rows, function_name, api_key_id) ==
    LET found == {r \in rows :
                    /\ r.name = function_name
                    /\ ColumnEquals(r.api_key_id, api_key_id) = "true"}
    IN  IF found = {} THEN NoRow ELSE CHOOSE r \in found : TRUE

\* The Function object create_functions builds for member i (lines 39-45).
NewFunction(function_upsert, app, embedding, api_key_id, id) ==
    LET function_data == ModelDumpExcludeNone(function_upsert)
    IN  [c \in FunctionColumns |->
           CASE c = "id" -> id
             [] c = "app_id" -> app.id
             [] c = "embedding" -> embedding
             [] c = "api_key_id" -> api_key_id
             [] c \in DOMAIN function_data -> function_data[c]
             [] OTHER -> NULL]

RECURSIVE create_functions_skipping(_, _, _, _, _, _, _, _)
\* Faulty variant of create_functions_loop: a member whose App is missing is
\* logged and skipped.
create_functions_skipping(appRows, rows, functions_upsert, functions_embeddings, api_key_id, firstId, i, added) ==
    IF i > Len(functions_upsert)
    THEN [raised |-> FALSE, table |-> rows \cup added, pending |-> {}]
    ELSE
      LET app == get_app_by_name_and_api_key_id(
                     appRows,
                     parse_app_name_from_function_name(
                         functions_upsert[i].values.name),
                     api_key_id)
      IN  create_functions_skipping(
              appRows, rows, functions_upsert, functions_embeddings,
              api_key_id, firstId, i + 1,
              IF app = NoRow THEN added
              ELSE added \cup {NewFunction(functions_upsert[i], app,
                                           functions_embeddings[i], api_key_id,
                                           firstId + i - 1)})

RECURSIVE create_functions_loop(_, _, _, _, _, _, _, _)
\* The loop of create_functions from member i on; added holds the Function
\* objects already handed to db_session.add. The session does not autoflush
\* (utils.py, get_sessionmaker), so the queries of the loop send nothing and
\* the objects reach the table only with the flush after the loop.
create_functions_loop(appRows, rows, functions_upsert, functions_embeddings, api_key_id, firstId, i, added) ==
    IF i > Len(functions_upsert)
    THEN [raised |-> FALSE, table |-> rows \cup added, pending |-> {}]
    ELSE
      LET function_upsert == functions_upsert[i]
          app_name == parse_app_name_from_function_name(
                          function_upsert.values.name)
          app == get_app_by_name_and_api_key_id(appRows, app_name, api_key_id)
      IN  IF app = NoRow
          THEN [raised |-> TRUE, table |-> rows, pending |-> added]
          ELSE create_functions_loop(
                   appRows, rows, functions_upsert, functions_embeddings,
                   api_key_id, firstId, i + 1,
                   added \cup {NewFunction(function_upsert, app,
                                           functions_embeddings[i], api_key_id,
                                           firstId + i - 1)})

\* create_functions: whether it raised, the functions table after it, and the
\* objects that were pending in the session, unflushed, when it raised.
create_functions(appRows, rows, functions_upsert, functions_embeddings, api_key_id, firstId) ==
    create_functions_loop(appRows, rows, functions_upsert,
                          functions_embeddings, api_key_id, firstId, 1, {})

RECURSIVE update_functions_loop(_, _, _, _, _, _, _)
\* The loop of update_functions from member i on; objects holds the session's
\* Function objects with the attributes set so far, touched the ids of those
\* changed. The changes reach the table only with the flush after the loop.
update_functions_loop(rows, objects, functions_upsert, functions_embeddings, api_key_id, i, touched) ==
    IF i > Len(functions_upsert)
    THEN [raised |-> FALSE, table |-> objects, pending |-> {}]
    ELSE
      LET function_upsert == functions_upsert[i]
          function == get_function_by_name_and_api_key_id(
                          objects, function_upsert.values.name, api_key_id)
          function_data == ModelDumpExcludeUnset(function_upsert)
          merged == SetAttrs(function, function_data)
          updated == IF functions_embeddings[i] # NoVector
                     THEN [merged EXCEPT !.embedding = functions_embeddings[i]]
                     ELSE merged
      IN  IF function = NoRow
          THEN [raised |-> TRUE, table |-> rows, pending |-> touched]
          ELSE update_functions_loop(
                   rows, (objects \ {function}) \cup {updated},
                   functions_upsert, functions_embeddings, api_key_id, i + 1,
                   touched \cup {function.id})

\* update_functions: whether it raised, the functions table after it, and the
\* ids of the objects whose attributes were set, unflushed, when it raised.
update_functions(rows, functions_upsert, functions_embeddings, api_key_id) ==
    update_functions_loop(rows, rows, functions_upsert, functions_embeddings,
                          api_key_id, 1, {})

\* Lines 179-190 and 221-232: the number of rows the statement yields for the
\* Function row f. With active_only the statement joins App on
\* Function.app_id == App.id; with public_only alone it names App only in its
\* WHERE clause, and the FROM clause is then functions, apps: every pair.
RowsPerFunction(f, appRows, public_only, active_only) ==
    IF active_only
    THEN Cardinality({a \in appRows :
                        /\ a.id = f.app_id
                        /\ a.active /\ f.active
                        /\ public_only => (/\ a.visibility = PUBLIC
                                           /\ f.visibility = PUBLIC)})
    ELSE IF public_only
    THEN Cardinality({a \in appRows : /\ a.visibility = PUBLIC
                                      /\ f.visibility = PUBLIC})
    ELSE 1

RECURSIVE FetchFunctions(_, _, _, _)
\* list(db_session.execute(statement).scalars().all()) over the Function rows
\* in storage order fscan: each row as often as the statement yields it.
FetchFunctions(fscan, appRows, public_only, active_only) ==
    IF fscan = <<>> THEN <<>>
    ELSE [i \in 1..RowsPerFunction(Head(fscan), appRows, public_only,
                                   active_only) |-> Head(fscan)]
         \o FetchFunctions(Tail(fscan), appRows, public_only, active_only)

\* Lines 198-201: the first fetched row owned by the caller.
FirstOwnedBy(fetched, api_key_id) ==
    First(SelectSeq(fetched, LAMBDA f: f.api_key_id = api_key_id))

\* Faulty variant of ChooseFunction: the fallback owner's row is looked for
\* before the caller's.
ChooseFunction_FallbackFirst(fetched, api_key_id) ==
    IF fetched = <<>> THEN NoRow
    ELSE IF FirstOwnedBy(fetched, LYZR_API_KEY_ID_DB) # NoRow
    THEN FirstOwnedBy(fetched, LYZR_API_KEY_ID_DB)
    ELSE IF api_key_id # NULL /\ FirstOwnedBy(fetched, api_key_id) # NoRow
    THEN FirstOwnedBy(fetched, api_key_id)
    ELSE fetched[1]

\* Lines 195-207: the choice among the fetched rows.
ChooseFunction(fetched, api_key_id) ==
    IF fetched = <<>> THEN NoRow
    ELSE IF api_key_id # NULL /\ FirstOwnedBy(fetched, api_key_id) # NoRow
    THEN FirstOwnedBy(fetched, api_key_id)
    ELSE IF FirstOwnedBy(fetched, LYZR_API_KEY_ID_DB) # NoRow
    THEN FirstOwnedBy(fetched, LYZR_API_KEY_ID_DB)
    ELSE fetched[1]

\* The rows get_function fetches (line 193).
get_function_rows(fscan, appRows, function_name, public_only, active_only) ==
    FetchFunctions(SelectSeq(fscan, LAMBDA f: f.name = function_name),
                   appRows, public_only, active_only)

get_function(fscan, appRows, function_name, public_only, active_only, api_key_id) ==
    ChooseFunction(get_function_rows(fscan, appRows, function_name,
                                     public_only, active_only),
                   api_key_id)

get_functions_by_names(fscan, appRows, function_names, public_only, active_only) ==
    IF function_names = <<>> THEN <<>>
    ELSE FetchFunctions(
             SelectSeq(fscan, LAMBDA f: f.name \in Range(function_names)),
             appRows, public_only, active_only)

\* Vector arithmetic for the <=> (cosine distance) operator of pgvector, on
\* the integer vectors with non-negative components the model stores.
Dot(a, b) == a[1] * b[1] + a[2] * b[2]

\* cosine_distance(a, q) < cosine_distance(b, q): the cosine of (a, q) is the
\* larger one; both sides are squared and cross-multiplied to stay in integers.
CloserThan(a, b, q) ==
    Dot(a, q) * Dot(a, q) * Dot(b, b) > Dot(b, q) * Dot(b, q) * Dot(a, a)

RECURSIVE InsertByDistance(_, _, _)
\* x placed before the first row of sorted that is not closer to q than x.
InsertByDistance(x, sorted, q) ==
    IF sorted = <<>> THEN <<x>>
    ELSE IF CloserThan(Head(sorted).embedding, x.embedding, q)
    THEN <<Head(sorted)>> \o InsertByDistance(x, Tail(sorted), q)
    ELSE <<x>> \o sorted

\* Faulty variant of OrderByDistance: the rows stay in scan order.
OrderByDistance_ScanOrder(rows, q) == rows

RECURSIVE OrderByDistance(_, _)
\* ORDER BY embedding <=> q: ascending distance; rows at equal distance stay
\* in the order the scan yields them.
OrderByDistance(rows, q) ==
    IF rows = <<>> THEN <<>>
    ELSE InsertByDistance(Head(rows), OrderByDistance(Tail(rows), q), q)

\* statement.offset(offset).limit(limit)
OffsetLimit(rows, offset, limit) ==
    SubSeq(rows, offset + 1,
           IF offset + limit < Len(rows) THEN offset + limit ELSE Len(rows))

\* The App row a Function row joins to (Function.app_id == App.id).
AppOf(f, appRows) ==
    LET found == {a \in appRows : a.id = f.app_id}
    IN  IF found = {} THEN NoRow ELSE CHOOSE a \in found : TRUE

\* Faulty variant of SearchFunctionsWhere: public_only tests the function's
\* visibility alone.
SearchFunctionsWhere_FunctionOnly(f, a, public_only, active_only, app_names, function_names, exclude_api_key_owned) ==
    /\ a # NoRow
    /\ active_only => (a.active /\ f.active)
    /\ public_only => f.visibility = PUBLIC
    /\ ~function_names.none => f.name \in Range(function_names.items)
    /\ ~app_names.none => a.name \in Range(app_names.items)
    /\ exclude_api_key_owned => f.api_key_id = NULL

\* Faulty variant of SearchFunctionsWhere: exclude_api_key_owned is not
\* looked at.
SearchFunctionsWhere_KeepOwned(f, a, public_only, active_only, app_names, function_names, exclude_api_key_owned) ==
    /\ a # NoRow
    /\ active_only => (a.active /\ f.active)
    /\ public_only => (a.visibility = PUBLIC /\ f.visibility = PUBLIC)
    /\ ~function_names.none => f.name \in Range(function_names.items)
    /\ ~app_names.none => a.name \in Range(app_names.items)

\* Lines 97-126 of search_functions: the WHERE clause over the joined row.
SearchFunctionsWhere(f, a, public_only, active_only, app_names, function_names, exclude_api_key_owned) ==
    /\ a # NoRow
    /\ active_only => (a.active /\ f.active)
    /\ public_only => (a.visibility = PUBLIC /\ f.visibility = PUBLIC)
    /\ ~function_names.none => f.name \in Range(function_names.items)
    /\ ~app_names.none => a.name \in Range(app_names.items)
    /\ exclude_api_key_owned => f.api_key_id = NULL

search_functions(fscan, appRows, public_only, active_only, app_names, function_names, intent_embedding, limit, offset, exclude_api_key_owned) ==
    LET kept == SelectSeq(fscan, LAMBDA f:
                    SearchFunctionsWhere(f, AppOf(f, appRows), public_only,
                                         active_only, app_names, function_names,
                                         exclude_api_key_owned))
        ordered == IF intent_embedding # NoVector
                   THEN OrderByDistance(kept, intent_embedding)
                   ELSE kept
    IN  OffsetLimit(ordered, offset, limit)

set_function_active_status(rows, function_name, active) ==
    {IF r.name = function_name THEN [r EXCEPT !.active = active] ELSE r
       : r \in rows}

set_function_visibility(rows, function_name, visibility) ==
    {IF r.name = function_name THEN [r EXCEPT !.visibility = visibility] ELSE r
       : r \in rows}

-----------------------------------------------------------------------------
(* crud/apps.py: search_apps *)

\* The length of a vector whose length is a whole number.
Norm(v) == CHOOSE n \in 0..Dot(v, v) : n * n = Dot(v, v)

\* Scores are kept as whole multiples of 1/DistanceScale.
DistanceScale == 25

\* App.embedding.cosine_distance(intent_embedding): 1 - cos(a, q), in units
\* of 1/DistanceScale; exact for the vectors of SearchVectors.
CosineDistance(a, q) ==
    DistanceScale - (DistanceScale * Dot(a, q)) \div (Norm(a) * Norm(q))

\* Lines 145-159 of search_apps: the WHERE clause.
SearchAppsWhere(a, public_only, active_only, app_names, categories) ==
    /\ public_only => a.visibility = PUBLIC
    /\ active_only => a.active
    /\ ~app_names.none => a.name \in Range(app_names.items)
    /\ ~categories.none => a.categories \cap Range(categories.items) # {}

\* search_apps: the (app, score) pairs of the page; score is None without an
\* intent vector.
search_apps(scan, public_only, active_only, app_names, categories, intent_embedding, limit, offset) ==
    LET kept == SelectSeq(scan, LAMBDA a:
                    SearchAppsWhere(a, public_only, active_only, app_names,
                                    categories))
        ordered == IF intent_embedding # NoVector
                   THEN OrderByDistance(kept, intent_embedding)
                   ELSE kept
        results == OffsetLimit(ordered, offset, limit)
    IN  [i \in 1..Len(results) |->
           [app |-> results[i],
            score |-> IF intent_embedding # NoVector
                      THEN CosineDistance(results[i].embedding,
                                          intent_embedding)
                      ELSE NULL]]

-----------------------------------------------------------------------------
(* State *)

NoCall == [op |-> "none"]

Init ==
    /\ apps = {}
    /\ functions = {}
    /\ nextId = 1
    /\ nextFunctionId = 1
    /\ last = NoCall
    /\ app_configurations = {}
    /\ linked_accounts = {}
    /\ inflight = {}
    /\ agents = {}

Idle == last.op = "none"

\* The response of the last call has been consumed; the next request starts.
Respond ==
    /\ ~Idle
    /\ last' = NoCall
    /\ UNCHANGED <<apps, functions, nextId, nextFunctionId,
                 app_configurations, linked_accounts, inflight, agents>>

\* A complete AppUpsert as the catalog specifications create it.
CatalogUpsert(name, visibility, active) ==
    [values |-> [name |-> name, display_name |-> "d1", description |-> "t1",
                 logo |-> NULL, categories |-> {"c1"},
                 visibility |-> visibility, active |-> active,
                 security_schemes |-> {"API_KEY"}],
     fields_set |-> {"name", "display_name", "description", "categories",
                     "visibility", "active", "security_schemes"}]

\* create_app for a (name, owner) pair not yet stored.
CreateApp(app_upsert, app_embedding, api_key_id) ==
    /\ Idle
    /\ Cardinality(apps) < MaxApps
    /\ get_app_by_name_and_api_key_id(apps, app_upsert.values.name, api_key_id)
         = NoRow
    /\ apps' = apps \cup {create_app(app_upsert, app_embedding, api_key_id, nextId)}
    /\ nextId' = nextId + 1
    /\ last' = [op |-> "create_app", id |-> nextId]
    /\ UNCHANGED <<functions, nextFunctionId,
                 app_configurations, linked_accounts, inflight, agents>>

\* The call before this one, when it was a call of the same operation: its
\* name, its flag and the table before it.
PreviousCall(op) ==
    IF last.op = op
    THEN [called |-> TRUE, name |-> last.name, active |-> last.active,
          before |-> last.before]
    ELSE [called |-> FALSE]

SetAppActiveStatus(app_name, active) ==
    /\ Idle \/ last.op = "set_app_active_status"
    /\ apps' = set_app_active_status(apps, app_name, active)
    /\ last' = [op |-> "set_app_active_status", name |-> app_name,
                active |-> active, before |-> apps,
                previous |-> PreviousCall("set_app_active_status")]
    /\ UNCHANGED <<functions, nextId, nextFunctionId,
                 app_configurations, linked_accounts, inflight, agents>>

SetAppVisibility(app_name, visibility) ==
    /\ Idle
    /\ apps' = set_app_visibility(apps, app_name, visibility)
    /\ last' = [op |-> "set_app_visibility", name |-> app_name,
                visibility |-> visibility, before |-> apps]
    /\ UNCHANGED <<functions, nextId, nextFunctionId,
                 app_configurations, linked_accounts, inflight, agents>>

GetApp(app_name, public_only, active_only, api_key_id) ==
    /\ Idle
    /\ \E scan \in Perms(apps) :
         last' = [op |-> "get_app", app_name |-> app_name,
                  public_only |-> public_only, active_only |-> active_only,
                  api_key_id |-> api_key_id,
                  result |-> get_app(scan, app_name, public_only, active_only,
                                     api_key_id)]
    /\ UNCHANGED <<apps, functions, nextId, nextFunctionId,
                 app_configurations, linked_accounts, inflight, agents>>

-----------------------------------------------------------------------------
(* SpecApps: the apps table alone, one name, rows of four owners *)

AppOwners == TenantKeys \cup {LYZR_API_KEY_ID_DB, NULL}

NextApps ==
    \/ \E v \in Visibilities, a \in BOOLEAN, k \in AppOwners :
         CreateApp(CatalogUpsert(AppX, v, a), <<1, 0>>, k)
    \/ \E a \in BOOLEAN : SetAppActiveStatus(AppX, a)
    \/ \E v \in Visibilities : SetAppVisibility(AppX, v)
    \/ \E po \in BOOLEAN, ao \in BOOLEAN, k \in CallerKeys :
         GetApp(AppX, po, ao, k)
    \/ Respond

SpecApps == Init /\ [][NextApps]_vars

-----------------------------------------------------------------------------
(* The functions table *)

\* The caller hands create_functions the functions not yet stored for the
\* owner, each name once.
NewForOwner(functions_upsert, api_key_id) ==
    /\ \A i \in 1..Len(functions_upsert) :
         get_function_by_name_and_api_key_id(
             functions, functions_upsert[i].values.name, api_key_id) = NoRow
    /\ \A i, j \in 1..Len(functions_upsert) :
         i # j => functions_upsert[i].values.name
                    # functions_upsert[j].values.name

\* A create_functions call; the session ends with the call, and with it the
\* objects left pending by a call that raised.
CreateFunctions(functions_upsert, functions_embeddings, api_key_id) ==
    /\ Idle
    /\ NewForOwner(functions_upsert, api_key_id)
    /\ Cardinality(functions) + Len(functions_upsert) <= MaxFunctions
    /\ nextFunctionId + Len(functions_upsert) - 1 <= MaxFunctionId
    /\ LET result == create_functions(apps, functions, functions_upsert,
                                      functions_embeddings, api_key_id,
                                      nextFunctionId)
       IN  /\ functions' = result.table
           /\ nextFunctionId' = IF result.raised THEN nextFunctionId
                                ELSE nextFunctionId + Len(functions_upsert)
           /\ last' = [op |-> "create_functions",
                       functions_upsert |-> functions_upsert,
                       api_key_id |-> api_key_id,
                       raised |-> result.raised,
                       pending |-> Cardinality(result.pending),
                       before |-> functions]
    /\ UNCHANGED <<apps, nextId,
                 app_configurations, linked_accounts, inflight, agents>>

\* An update_functions call; the session ends with the call.
UpdateFunctions(functions_upsert, functions_embeddings, api_key_id) ==
    /\ Idle
    /\ LET result == update_functions(functions, functions_upsert,
                                      functions_embeddings, api_key_id)
       IN  /\ functions' = result.table
           /\ last' = [op |-> "update_functions",
                       functions_upsert |-> functions_upsert,
                       api_key_id |-> api_key_id,
                       raised |-> result.raised,
                       pending |-> Cardinality(result.pending),
                       before |-> functions]
    /\ UNCHANGED <<apps, nextId, nextFunctionId,
                 app_configurations, linked_accounts, inflight, agents>>

SetFunctionActiveStatus(function_name, active) ==
    /\ Idle \/ last.op = "set_function_active_status"
    /\ functions' = set_function_active_status(functions, function_name, active)
    /\ last' = [op |-> "set_function_active_status", name |-> function_name,
                active |-> active, before |-> functions,
                previous |-> PreviousCall("set_function_active_status")]
    /\ UNCHANGED <<apps, nextId, nextFunctionId,
                 app_configurations, linked_accounts, inflight, agents>>

SetFunctionVisibility(function_name, visibility) ==
    /\ Idle
    /\ functions' = set_function_visibility(functions, function_name, visibility)
    /\ last' = [op |-> "set_function_visibility", name |-> function_name,
                visibility |-> visibility, before |-> functions]
    /\ UNCHANGED <<apps, nextId, nextFunctionId,
                 app_configurations, linked_accounts, inflight, agents>>

GetFunction(function_name, public_only, active_only, api_key_id) ==
    /\ Idle
    /\ \E fscan \in Perms(functions) :
         last' = [op |-> "get_function", function_name |-> function_name,
                  public_only |-> public_only, active_only |-> active_only,
                  api_key_id |-> api_key_id,
                  fetched |-> get_function_rows(fscan, apps, function_name,
                                                public_only, active_only),
                  result |-> get_function(fscan, apps, function_name,
                                          public_only, active_only, api_key_id)]
    /\ UNCHANGED <<apps, functions, nextId, nextFunctionId,
                 app_configurations, linked_accounts, inflight, agents>>

GetFunctionsByNames(function_names, public_only, active_only) ==
    /\ Idle
    /\ \E fscan \in Perms(functions) :
         last' = [op |-> "get_functions_by_names",
                  function_names |-> function_names,
                  public_only |-> public_only, active_only |-> active_only,
                  result |-> get_functions_by_names(fscan, apps, function_names,
                                                    public_only, active_only)]
    /\ UNCHANGED <<apps, functions, nextId, nextFunctionId,
                 app_configurations, linked_accounts, inflight, agents>>

SearchFunctions(public_only, active_only, app_names, function_names, intent_embedding, limit, offset, exclude_api_key_owned) ==
    /\ Idle
    /\ \E fscan \in Perms(functions) :
         last' = [op |-> "search_functions",
                  public_only |-> public_only, active_only |-> active_only,
                  app_names |-> app_names, function_names |-> function_names,
                  intent_embedding |-> intent_embedding,
                  limit |-> limit, offset |-> offset,
                  exclude_api_key_owned |-> exclude_api_key_owned,
                  result |-> search_functions(fscan, apps, public_only,
                                active_only, app_names, function_names,
                                intent_embedding, limit, offset,
                                exclude_api_key_owned)]
    /\ UNCHANGED <<apps, functions, nextId, nextFunctionId,
                 app_configurations, linked_accounts, inflight, agents>>

-----------------------------------------------------------------------------
(* Spec: a seeded apps table and the functions table *)

\* The owners of the seeded rows: a tenant, the platform key and no owner.
CatalogOwners == {"KA", LYZR_API_KEY_ID_DB, NULL}
\* The keys batches are written with; KC owns no App.
BatchKeys == CatalogOwners \cup {"KC"}
LookupKeys == CatalogOwners \cup {"KC"}

SeedApp(id, visibility, api_key_id) ==
    create_app(CatalogUpsert(AppX, visibility, TRUE), <<1, 0>>, api_key_id, id)

\* The apps table after seeding: the app X of each catalog owner, the
\* tenant's copy PRIVATE.
InitCatalog ==
    /\ apps = {SeedApp(1, PRIVATE, "KA"),
               SeedApp(2, PUBLIC, LYZR_API_KEY_ID_DB),
               SeedApp(3, PUBLIC, NULL)}
    /\ functions = {}
    /\ nextId = 4
    /\ nextFunctionId = 1
    /\ last = NoCall
    /\ app_configurations = {}
    /\ linked_accounts = {}
    /\ inflight = {}
    /\ agents = {}

FunctionUpsertOf(name, visibility, active) ==
    [values |-> [name |-> name, visibility |-> visibility, active |-> active],
     fields_set |-> {"name", "visibility", "active"}]

\* A FunctionUpsert that sets, besides the name, the fields of fields_set.
PartialFunctionUpsert(name, visibility, active, fields_set) ==
    [values |-> [name |-> name, visibility |-> visibility, active |-> active],
     fields_set |-> {"name"} \cup fields_set]

FunctionNames == {FnXF, FnYF}

CreateUpserts ==
    {FunctionUpsertOf(FnXF, v, a) : v \in Visibilities, a \in BOOLEAN}
      \cup {FunctionUpsertOf(FnYF, PUBLIC, TRUE)}

UpdateUpserts ==
    {PartialFunctionUpsert(FnXF, PUBLIC, FALSE, {"active"}),
     PartialFunctionUpsert(FnXF, PRIVATE, TRUE, {"visibility"}),
     PartialFunctionUpsert(FnYF, PUBLIC, TRUE, {"visibility", "active"})}

RECURSIVE SeqsUpTo(_, _)
\* The non-empty sequences over S of length at most n.
SeqsUpTo(S, n) ==
    IF n = 0 THEN {}
    ELSE {<<x>> : x \in S}
         \cup {<<x>> \o t : x \in S, t \in SeqsUpTo(S, n - 1)}

Next ==
    \/ \E batch \in SeqsUpTo(CreateUpserts, MaxBatch), k \in BatchKeys :
         CreateFunctions(batch, [i \in 1..Len(batch) |-> <<1, 0>>], k)
    \/ \E batch \in SeqsUpTo(UpdateUpserts, MaxBatch), k \in BatchKeys :
         UpdateFunctions(batch, [i \in 1..Len(batch) |-> NoVector], k)
    \/ \E a \in BOOLEAN : SetAppActiveStatus(AppX, a)
    \/ \E v \in Visibilities : SetAppVisibility(AppX, v)
    \/ \E a \in BOOLEAN : SetFunctionActiveStatus(FnXF, a)
    \/ \E v \in Visibilities : SetFunctionVisibility(FnXF, v)
    \/ \E n \in FunctionNames, po \in BOOLEAN, ao \in BOOLEAN,
          k \in LookupKeys :
         GetFunction(n, po, ao, k)
    \/ \E ns \in {<<>>, <<FnXF>>, <<FnXF, FnYF>>}, po \in BOOLEAN,
          ao \in BOOLEAN :
         GetFunctionsByNames(ns, po, ao)
    \/ \E po \in BOOLEAN, ao \in BOOLEAN,
          names \in {<<NoneList, NoneList>>, <<ListOf(<<AppX>>), NoneList>>,
                     <<NoneList, ListOf(<<FnYF>>)>>},
          q \in {NoVector, <<1, 0>>}, page \in {<<2, 0>>, <<1, 1>>},
          ex \in BOOLEAN :
         SearchFunctions(po, ao, names[1], names[2], q, page[1], page[2], ex)
    \/ \E po \in BOOLEAN, ao \in BOOLEAN, k \in LookupKeys :
         GetApp(AppX, po, ao, k)
    \/ Respond

Spec == InitCatalog /\ [][Next]_vars

-----------------------------------------------------------------------------
(* Properties of get_app *)

\* The rows of apps with the name that pass the public_only/active_only filters.
AppCandidates(app_name, public_only, active_only) ==
    {r \in apps : /\ r.name = app_name
                  /\ active_only => r.active
                  /\ public_only => r.visibility = PUBLIC}

LastAppCandidates ==
    AppCandidates(last.app_name, last.public_only, last.active_only)

OwnedBy(rows, key) == {r \in rows : r.api_key_id = key}

GetAppWithKey == last.op = "get_app" /\ last.api_key_id # NULL

\* C2: get_app with a caller key K returns a row owned by K whenever a row of
\* that name owned by K passes the filters, whatever other same-name rows
\* (fallback-owned, owned by other tenants, without owner) are stored.
C2_CallerRowReturned ==
    (GetAppWithKey /\ OwnedBy(LastAppCandidates, last.api_key_id) # {})
        => /\ last.result \in LastAppCandidates
           /\ last.result.api_key_id = last.api_key_id

\* A tenant's lookup with its own row, a fallback-owned row and another row stored.
C2_Witness ==
    /\ GetAppWithKey
    /\ last.api_key_id \in TenantKeys
    /\ OwnedBy(LastAppCandidates, last.api_key_id) # {}
    /\ OwnedBy(LastAppCandidates, LYZR_API_KEY_ID_DB) # {}
    /\ Cardinality(LastAppCandidates) = 3
    /\ last.result.api_key_id = last.api_key_id

\* The caller owns no candidate row.
CallerOwnsNone == GetAppWithKey /\ OwnedBy(LastAppCandidates, last.api_key_id) = {}

OnlyOtherOwners ==
    /\ CallerOwnsNone
    /\ OwnedBy(LastAppCandidates, LYZR_API_KEY_ID_DB) = {}
    /\ LastAppCandidates # {}

-----------------------------------------------------------------------------
(* Properties of the functions table *)

\* The App a stored function belongs to.
OwnAppOf(f) == CHOOSE a \in apps : a.id = f.app_id

\* The stored functions of a name that pass the flags, the function's own App
\* included.
FunctionCandidates(function_name, public_only, active_only) ==
    {f \in functions :
        /\ f.name = function_name
        /\ public_only =>
             (f.visibility = PUBLIC /\ OwnAppOf(f).visibility = PUBLIC)
        /\ active_only => (f.active /\ OwnAppOf(f).active)}

\* The stored functions of a name that pass the flags on the function itself.
FunctionLevelCandidates(function_name, public_only, active_only) ==
    {f \in functions :
        /\ f.name = function_name
        /\ public_only => f.visibility = PUBLIC
        /\ active_only => f.active}

OwnedFunctions(fetched, key) == {f \in Range(fetched) : f.api_key_id = key}

\* C1: get_function chooses among the rows its query fetched for the name and
\* the flags: a row owned by the caller's key when there is one, otherwise a
\* row owned by the fallback key when there is one, otherwise the first row
\* fetched, and None when nothing was fetched. The rows fetched are rows of
\* the name that pass the flags on the function, they include every row whose
\* App passes them too, and they are exactly those rows whenever the query
\* joins the App (active_only) or does not test it (no public_only).
C1_GetFunctionPriority ==
    last.op = "get_function" =>
      LET fetched == last.fetched
          key == last.api_key_id
          callers == IF key = NULL THEN {} ELSE OwnedFunctions(fetched, key)
          fallbacks == OwnedFunctions(fetched, LYZR_API_KEY_ID_DB)
          candidates == FunctionCandidates(last.function_name,
                                           last.public_only, last.active_only)
      IN  /\ candidates \subseteq Range(fetched)
          /\ Range(fetched) \subseteq
                 FunctionLevelCandidates(last.function_name,
                                         last.public_only, last.active_only)
          /\ (last.active_only \/ ~last.public_only)
                 => Range(fetched) = candidates
          /\ fetched = <<>> => last.result = NoRow
          /\ callers # {} => last.result \in callers
          /\ (callers = {} /\ fallbacks # {}) => last.result \in fallbacks
          /\ (callers = {} /\ fallbacks = {} /\ fetched # <<>>)
                 => last.result = fetched[1]

\* A caller with a key got its own row although the fallback owner's row of
\* the same name was fetched too.
C1_Witness ==
    /\ last.op = "get_function"
    /\ last.api_key_id \notin {NULL, LYZR_API_KEY_ID_DB}
    /\ OwnedFunctions(last.fetched, LYZR_API_KEY_ID_DB) # {}
    /\ last.result # NoRow
    /\ last.result.api_key_id = last.api_key_id

\* C5: get_app and get_function return the same row for the same arguments
\* over the same tables, in whatever order the database hands the rows over.
C5_LookupsDeterministic ==
    /\ last.op = "get_app" =>
         \A scan \in Perms(apps) :
            get_app(scan, last.app_name, last.public_only, last.active_only,
                    last.api_key_id) = last.result
    /\ last.op = "get_function" =>
         \A fscan \in Perms(functions) :
            get_function(fscan, apps, last.function_name, last.public_only,
                         last.active_only, last.api_key_id) = last.result

\* Member i of a create_functions batch names an App the owner does not have.
MissingApp(functions_upsert, api_key_id, i) ==
    \A a \in apps :
       ~(/\ a.api_key_id = api_key_id
         /\ a.name = parse_app_name_from_function_name(
                         functions_upsert[i].values.name))

\* Member i of an update_functions batch names a function the owner did not
\* have before the call.
MissingFunction(before, functions_upsert, api_key_id, i) ==
    \A f \in before :
       ~(f.api_key_id = api_key_id /\ f.name = functions_upsert[i].values.name)

\* C6: a create_functions batch with a member whose App is not found for the
\* owner, and an update_functions batch with a member not stored for the
\* owner, raise and leave the functions table as it was before the call.
C6_BatchAllOrNothing ==
    /\ (/\ last.op = "create_functions"
        /\ \E i \in 1..Len(last.functions_upsert) :
              MissingApp(last.functions_upsert, last.api_key_id, i))
         => (last.raised /\ functions = last.before)
    /\ (/\ last.op = "update_functions"
        /\ \E i \in 1..Len(last.functions_upsert) :
              MissingFunction(last.before, last.functions_upsert,
                              last.api_key_id, i))
         => (last.raised /\ functions = last.before)

\* A create_functions batch raised at a later member after an earlier member
\* had been added to the session.
C6_Witness ==
    /\ last.op = "create_functions"
    /\ last.raised
    /\ last.pending > 0
    /\ ~MissingApp(last.functions_upsert, last.api_key_id, 1)

\* C7: every row search_functions returns is a stored function; under
\* public_only the function and its App are PUBLIC, under active_only the
\* function and its App are active.
C7_SearchFlagsOnFunctionAndApp ==
    last.op = "search_functions" =>
      \A f \in Range(last.result) :
         /\ f \in functions
         /\ last.public_only =>
              (f.visibility = PUBLIC /\ OwnAppOf(f).visibility = PUBLIC)
         /\ last.active_only => (f.active /\ OwnAppOf(f).active)

\* A public_only search returned a row while a PUBLIC function of a PRIVATE
\* App, which the other arguments admit, stayed out of the result.
C7_Witness ==
    /\ last.op = "search_functions"
    /\ last.public_only
    /\ ~last.exclude_api_key_owned
    /\ last.app_names.none /\ last.function_names.none
    /\ last.offset = 0
    /\ last.result # <<>>
    /\ \E f \in functions :
          /\ f.visibility = PUBLIC
          /\ OwnAppOf(f).visibility = PRIVATE
          /\ last.active_only => (f.active /\ OwnAppOf(f).active)
          /\ f \notin Range(last.result)

\* The stored functions that pass the flags and the name filters of the last
\* search_functions call, whoever owns them.
SearchFunctionsMatches ==
    {f \in functions :
        /\ last.public_only =>
              (f.visibility = PUBLIC /\ OwnAppOf(f).visibility = PUBLIC)
        /\ last.active_only => (f.active /\ OwnAppOf(f).active)
        /\ ~last.function_names.none =>
              \E i \in 1..Len(last.function_names.items) :
                 f.name = last.function_names.items[i]
        /\ ~last.app_names.none =>
              \E i \in 1..Len(last.app_names.items) :
                 OwnAppOf(f).name = last.app_names.items[i]}

\* C14: with exclude_api_key_owned set, search_functions returns only
\* functions whose owner key is null; with it unset, a page that starts at
\* offset 0 and has room for them holds every function that passes the
\* other filters, the functions owned by a key included.
C14_ExcludeOwnedFunctions ==
    last.op = "search_functions" =>
      /\ last.exclude_api_key_owned =>
            \A f \in Range(last.result) : f.api_key_id = NULL
      /\ (/\ ~last.exclude_api_key_owned
          /\ last.offset = 0
          /\ Cardinality(SearchFunctionsMatches) <= last.limit)
            => Range(last.result) = SearchFunctionsMatches

\* A tenant's function and a system function were stored: a search without
\* the exclusion returned both.
C14_Witness ==
    /\ last.op = "search_functions"
    /\ ~last.exclude_api_key_owned
    /\ \E f, g \in Range(last.result) :
          f.api_key_id = NULL /\ g.api_key_id = "KA"

\* C8: under public_only, get_function and get_functions_by_names return no
\* function whose own App is PRIVATE, with active_only set or not.
C8_PublicOnlyExcludesPrivateApps ==
    /\ (last.op = "get_function" /\ last.public_only /\ last.result # NoRow)
         => OwnAppOf(last.result).visibility = PUBLIC
    /\ (last.op = "get_functions_by_names" /\ last.public_only)
         => \A f \in Range(last.result) : OwnAppOf(f).visibility = PUBLIC

-----------------------------------------------------------------------------
(* SpecUpsert: update_app and the App upsert over the apps table *)

\* Faulty variant of update_app: the embedding argument is assigned even
\* when it is None.
update_app_AlwaysEmbedding(app, app_upsert, app_embedding) ==
    [SetAttrs(app, ModelDumpExcludeUnset(app_upsert))
        EXCEPT !.embedding = app_embedding]

\* Faulty variant of update_app: the upsert is dumped with exclude_none.
update_app_ExcludeNone(app, app_upsert, app_embedding) ==
    LET new_app_data ==
            [f \in DOMAIN ModelDumpExcludeNone(app_upsert)
                     \cap app_upsert.fields_set |-> app_upsert.values[f]]
        merged == SetAttrs(app, new_app_data)
    IN  IF app_embedding # NoVector
        THEN [merged EXCEPT !.embedding = app_embedding]
        ELSE merged

\* Faulty variant of update_app: the embedding argument is ignored.
update_app_KeepsEmbedding(app, app_upsert, app_embedding) ==
    SetAttrs(app, ModelDumpExcludeUnset(app_upsert))

\* update_app (apps.py 40-60): the App row after the flush.
update_app(app, app_upsert, app_embedding) ==
    LET new_app_data == ModelDumpExcludeUnset(app_upsert)
        merged == SetAttrs(app, new_app_data)
    IN  IF app_embedding # NoVector
        THEN [merged EXCEPT !.embedding = app_embedding]
        ELSE merged

\* The fields generate_app_embedding reads (embeddings.py 26-27), of those
\* the model keeps.
AppEmbeddingFields == {"name", "display_name", "description"}

\* The upsert names a value for an embedding field that differs from the
\* stored one.
EmbeddingFieldsChanged(existing, app_upsert) ==
    \E f \in AppEmbeddingFields \cap app_upsert.fields_set :
       app_upsert.values[f] # existing[f]

\* upsert_app: looks the App up by (name, owner); creates it with a fresh
\* embedding when absent; otherwise updates it, with a fresh embedding only
\* when a field of the embedding changed. embedding is the vector the
\* provider returns if asked. The apps table after the call.
upsert_app_helper(rows, app_upsert, api_key_id, embedding, id) ==
    LET existing == get_app_by_name_and_api_key_id(
                        rows, app_upsert.values.name, api_key_id)
    IN  IF existing = NoRow
        THEN rows \cup {create_app(app_upsert, embedding, api_key_id, id)}
        ELSE (rows \ {existing})
               \cup {update_app(existing, app_upsert,
                                IF EmbeddingFieldsChanged(existing, app_upsert)
                                THEN embedding ELSE NoVector)}

\* Whether upsert_app asks the provider for an embedding: for a new App, and
\* for a stored App when a field of the embedding changed.
upsert_app_embeds(rows, app_upsert, api_key_id) ==
    LET existing == get_app_by_name_and_api_key_id(
                        rows, app_upsert.values.name, api_key_id)
    IN  existing = NoRow \/ EmbeddingFieldsChanged(existing, app_upsert)

DisplayNames == {"d1", "d2"}
Logos == {NULL, "l1"}
UpsertOwners == {"KA", NULL}

\* An AppUpsert for App X; name is always set.
AppUpsertOf(display_name, logo, optional_set) ==
    [values |-> [name |-> AppX, display_name |-> display_name,
                 description |-> "t1", logo |-> logo, categories |-> {"c1"},
                 visibility |-> PUBLIC, active |-> TRUE,
                 security_schemes |-> {"API_KEY"}],
     fields_set |-> {"name"} \cup optional_set]

\* The complete specifications the upsert is given.
FullAppUpserts ==
    {[AppUpsertOf(d, l, {"display_name", "description", "logo", "visibility",
                         "active"}) EXCEPT !.values.active = a] :
        d \in DisplayNames, l \in Logos, a \in BOOLEAN}

\* The specifications update_app is given, some fields unset.
PartialAppUpserts ==
    {AppUpsertOf(d, l, fs) : d \in DisplayNames, l \in Logos,
                             fs \in SUBSET {"display_name", "logo"}}

\* An upsert_app call; it may follow another upsert_app call directly.
UpsertApp(app_upsert, api_key_id, embedding) ==
    /\ Idle \/ last.op = "upsert_app"
    /\ \/ get_app_by_name_and_api_key_id(apps, app_upsert.values.name,
                                         api_key_id) # NoRow
       \/ (Cardinality(apps) < MaxApps /\ nextId <= MaxAppId)
    /\ apps' = upsert_app_helper(apps, app_upsert, api_key_id, embedding, nextId)
    /\ nextId' = IF Cardinality(apps') > Cardinality(apps)
                 THEN nextId + 1 ELSE nextId
    /\ last' = [op |-> "upsert_app", app_upsert |-> app_upsert,
                api_key_id |-> api_key_id, embedding |-> embedding,
                embed_called |-> upsert_app_embeds(apps, app_upsert, api_key_id),
                before |-> apps,
                repeated |-> /\ last.op = "upsert_app"
                             /\ last.app_upsert = app_upsert
                             /\ last.api_key_id = api_key_id]
    /\ UNCHANGED <<functions, nextFunctionId,
                 app_configurations, linked_accounts, inflight, agents>>

\* An update_app call on the stored App of an owner.
UpdateApp(api_key_id, app_upsert, app_embedding) ==
    /\ Idle
    /\ LET app == get_app_by_name_and_api_key_id(
                      apps, app_upsert.values.name, api_key_id)
       IN  /\ app # NoRow
           /\ apps' = (apps \ {app})
                        \cup {update_app(app, app_upsert, app_embedding)}
           /\ last' = [op |-> "update_app", app |-> app,
                       app_upsert |-> app_upsert,
                       app_embedding |-> app_embedding, before |-> apps]
    /\ UNCHANGED <<functions, nextId, nextFunctionId,
                 app_configurations, linked_accounts, inflight, agents>>

NextUpsert ==
    \/ \E u \in FullAppUpserts, k \in UpsertOwners, e \in Vectors :
          UpsertApp(u, k, e)
    \/ \E k \in UpsertOwners, u \in PartialAppUpserts,
          e \in Vectors \cup {NoVector} :
          UpdateApp(k, u, e)
    \/ Respond

SpecUpsert == Init /\ [][NextUpsert]_vars

-----------------------------------------------------------------------------
(* Properties of the App upsert and of update_app *)

RowsOf(rows, app_name, api_key_id) ==
    {a \in rows : a.name = app_name /\ a.api_key_id = api_key_id}

\* C9: when an upsert of an App specification is directly followed by an
\* upsert of the same specification under the same owner key, there is,
\* after the second as after the first, exactly one row for the (name,
\* owner) pair, and the second leaves its id and its embedding as they were.
C9_RepeatedUpsertKeepsRow ==
    (last.op = "upsert_app" /\ last.repeated) =>
      LET first == RowsOf(last.before, last.app_upsert.values.name,
                          last.api_key_id)
          second == RowsOf(apps, last.app_upsert.values.name, last.api_key_id)
      IN  /\ Cardinality(first) = 1
          /\ Cardinality(second) = 1
          /\ \A a \in first, b \in second :
                a.id = b.id /\ a.embedding = b.embedding
          /\ Cardinality(apps) = Cardinality(last.before)

\* The same specification was upserted twice in a row for an owner while
\* the provider would have returned another vector the second time.
C9_Witness ==
    /\ last.op = "upsert_app"
    /\ last.repeated
    /\ Cardinality(apps) = 2
    /\ \E a \in RowsOf(apps, last.app_upsert.values.name, last.api_key_id) :
          a.embedding # last.embedding
    /\ \E a \in RowsOf(apps, last.app_upsert.values.name, last.api_key_id) :
          a.display_name = "d2" /\ a.logo = "l1"

UpdatedApp == CHOOSE a \in apps : a.id = last.app.id

\* update_app left every other row as it was.
OtherRowsUnchanged == apps \ {UpdatedApp} = last.before \ {last.app}

\* C10 as stated: update_app overwrites exactly the fields set in the
\* specification, an explicit null included, and leaves every other field of
\* the row, and every other row, unchanged.
C10_OnlySetFieldsChange ==
    last.op = "update_app" =>
      /\ \A c \in AppColumns :
            UpdatedApp[c] = IF c \in last.app_upsert.fields_set
                            THEN last.app_upsert.values[c]
                            ELSE last.app[c]
      /\ OtherRowsUnchanged

\* C10: update_app overwrites the fields set in the specification, an
\* explicit null included, and the embedding when an embedding is supplied;
\* it leaves every other field of the row, and every other row, unchanged.
C10_SetFieldsAndEmbeddingChange ==
    last.op = "update_app" =>
      /\ \A c \in AppColumns :
            UpdatedApp[c] =
               IF c \in last.app_upsert.fields_set
               THEN last.app_upsert.values[c]
               ELSE IF c = "embedding" /\ last.app_embedding # NoVector
               THEN last.app_embedding
               ELSE last.app[c]
      /\ OtherRowsUnchanged

\* update_app was given an explicit null for a stored logo, no display name,
\* and a new embedding, while another row was stored.
C10_Witness ==
    /\ last.op = "update_app"
    /\ "logo" \in last.app_upsert.fields_set
    /\ last.app_upsert.values.logo = NULL
    /\ last.app.logo # NULL
    /\ "display_name" \notin last.app_upsert.fields_set
    /\ last.app_upsert.values.display_name # last.app.display_name
    /\ last.app_embedding # NoVector
    /\ last.app_embedding # last.app.embedding
    /\ Cardinality(apps) = 2

-----------------------------------------------------------------------------
(* SpecSearch: search_apps over apps of several embeddings *)

AppZ == <<"Z">>

\* Embeddings of whole-number length, no two in the same direction.
SearchVectors == {<<1, 0>>, <<0, 1>>, <<3, 4>>}

\* The specifications the searched apps are created from.
SearchUpserts ==
    {[CatalogUpsert(n, p[1], p[2]) EXCEPT !.values.categories = p[3]] :
        n \in {AppX, AppZ},
        p \in {<<PUBLIC, TRUE, {"c1"}>>, <<PRIVATE, TRUE, {"c1", "c2"}>>,
               <<PUBLIC, FALSE, {"c2"}>>}}

\* The apps created for the searches: X of the platform and of a tenant, Z
\* of the platform.
SearchCreates ==
    {<<u, k>> \in SearchUpserts \X {NULL, "KA"} :
        u.values.name = AppZ => k = NULL}

SearchApps(public_only, active_only, app_names, categories, intent_embedding, limit, offset) ==
    /\ Idle
    /\ \E scan \in Perms(apps) :
         last' = [op |-> "search_apps",
                  public_only |-> public_only, active_only |-> active_only,
                  app_names |-> app_names, categories |-> categories,
                  intent_embedding |-> intent_embedding,
                  limit |-> limit, offset |-> offset,
                  result |-> search_apps(scan, public_only, active_only,
                                         app_names, categories,
                                         intent_embedding, limit, offset)]
    /\ UNCHANGED <<apps, functions, nextId, nextFunctionId,
                 app_configurations, linked_accounts, inflight, agents>>

NextSearch ==
    \/ \E c \in SearchCreates, e \in SearchVectors : CreateApp(c[1], e, c[2])
    \/ \E flags \in {<<FALSE, FALSE>>, <<TRUE, FALSE>>, <<FALSE, TRUE>>},
          filters \in {<<NoneList, NoneList>>, <<ListOf(<<AppX>>), NoneList>>,
                       <<NoneList, ListOf(<<"c1">>)>>},
          q \in {NoVector, <<1, 0>>, <<3, 4>>},
          page \in {<<2, 0>>, <<2, 1>>} :
          SearchApps(flags[1], flags[2], filters[1], filters[2], q,
                     page[1], page[2])
    \/ Respond

SpecSearch == Init /\ [][NextSearch]_vars

-----------------------------------------------------------------------------
(* Properties of search_apps *)

\* The stored apps that pass the filters of the last search_apps call.
SearchAppsMatches ==
    {a \in apps :
        /\ last.public_only => a.visibility = PUBLIC
        /\ last.active_only => a.active
        /\ ~last.app_names.none => \E i \in 1..Len(last.app_names.items) :
                                      a.name = last.app_names.items[i]
        /\ ~last.categories.none => \E i \in 1..Len(last.categories.items) :
                                       last.categories.items[i] \in a.categories}

\* C12: search_apps returns distinct apps that pass the visibility, active,
\* name and category filters, as many as the page (offset, limit) holds of
\* the apps that pass them. With an intent vector each score is the cosine
\* distance of the app's embedding, the scores do not decrease, and the i-th
\* row of the page has at most offset + i - 1 passing apps strictly closer
\* and at least offset + i at most as far. Without one every score is None.
C12_SearchAppsOrderedPage ==
    last.op = "search_apps" =>
      LET res == last.result
          q == last.intent_embedding
          left == Cardinality(SearchAppsMatches) - last.offset
      IN  /\ \A i \in 1..Len(res) : res[i].app \in SearchAppsMatches
          /\ \A i, j \in 1..Len(res) : i # j => res[i].app # res[j].app
          /\ Len(res) = IF left < 0 THEN 0
                        ELSE IF left < last.limit THEN left ELSE last.limit
          /\ q # NoVector =>
               /\ \A i \in 1..Len(res) :
                     res[i].score = CosineDistance(res[i].app.embedding, q)
               /\ \A i, j \in 1..Len(res) :
                     i < j => res[i].score <= res[j].score
               /\ \A i \in 1..Len(res) :
                     /\ Cardinality({a \in SearchAppsMatches :
                           CosineDistance(a.embedding, q) < res[i].score})
                          <= last.offset + i - 1
                     /\ Cardinality({a \in SearchAppsMatches :
                           CosineDistance(a.embedding, q) <= res[i].score})
                          >= last.offset + i
          /\ q = NoVector => \A i \in 1..Len(res) : res[i].score = NULL

\* Three apps at three distances from the intent vector were stored, one of
\* them did not pass the filters, and the search returned the other two,
\* the closer one first.
C12_Witness ==
    /\ last.op = "search_apps"
    /\ last.intent_embedding = <<3, 4>>
    /\ Cardinality(apps) = 3
    /\ Cardinality({a.embedding : a \in apps}) = 3
    /\ Cardinality(SearchAppsMatches) = 2
    /\ Len(last.result) = 2
    /\ last.result[1].score < last.result[2].score

\* The apps of a list of (app, score) pairs.
AppsOf(results) == {results[i].app : i \in 1..Len(results)}

\* C13: over an unchanged store the page of search_apps at offset 0 and the
\* page at the next offset, whatever order the storage engine yields the
\* rows in for each of the two queries, have no app in common, and when the
\* two pages have room for every app that passes the filters they hold them
\* all.
C13_SuccessivePagesPartition ==
    (last.op = "search_apps" /\ last.offset = 0) =>
      \A scan \in Perms(apps) :
         LET next == search_apps(scan, last.public_only, last.active_only,
                                 last.app_names, last.categories,
                                 last.intent_embedding, last.limit,
                                 last.limit)
         IN  /\ AppsOf(last.result) \cap AppsOf(next) = {}
             /\ Cardinality(SearchAppsMatches) <= 2 * last.limit
                  => AppsOf(last.result) \cup AppsOf(next) = SearchAppsMatches

-----------------------------------------------------------------------------
(* Storage errors and the owner-checked deletes *)

\* What db_session.execute meets: no fault, the api_key_id column missing
\* from the apps or from the functions table, or another storage error.
Faults == {"none", "apps_column", "functions_column", "other"}

\* The exception execute raises under a fault; relation is the column the
\* message "column ... does not exist" names.
StorageError(fault) ==
    CASE fault = "apps_column" ->
           [kind |-> "undefined_column", relation |-> "apps.api_key_id"]
      [] fault = "functions_column" ->
           [kind |-> "undefined_column", relation |-> "functions.api_key_id"]
      [] OTHER -> [kind |-> "operational", relation |-> ""]

\* A statement over the given tables raises under the fault: a select of a
\* mapped class names every mapped column of its table.
Fails(fault, tables) ==
    \/ fault = "other"
    \/ fault = "apps_column" /\ "apps" \in tables
    \/ fault = "functions_column" /\ "functions" \in tables

\* Faulty variant of NamesMissingColumn: every exception is taken for the
\* missing column.
NamesMissingColumn_AnyError(e, relation) == TRUE

\* "column <relation> does not exist" in str(e)
NamesMissingColumn(e, relation) ==
    e.kind = "undefined_column" /\ e.relation = relation

\* Faulty variant of delete_app_by_id: the owner is not tested.
delete_app_by_id_AnyOwner(fault, rows, app_id, api_key_id) ==
    LET found == {r \in rows : r.id = app_id}
        app == IF found = {} THEN NoRow ELSE CHOOSE r \in found : TRUE
    IN  [raised |-> FALSE, value |-> app # NoRow, deleted |-> app]

\* delete_app_by_id: whether it raised, the boolean it returned and the App
\* it handed to db_session.delete (NoRow when none).
delete_app_by_id(fault, rows, app_id, api_key_id) ==
    IF Fails(fault, {"apps"})
    THEN IF NamesMissingColumn(StorageError(fault), "apps.api_key_id")
         THEN [raised |-> FALSE, value |-> FALSE, deleted |-> NoRow]
         ELSE [raised |-> TRUE, value |-> FALSE, deleted |-> NoRow]
    ELSE
      LET found == {r \in rows :
                      /\ r.id = app_id
                      /\ ColumnEquals(r.api_key_id, api_key_id) = "true"}
          app == IF found = {} THEN NoRow ELSE CHOOSE r \in found : TRUE
      IN  [raised |-> FALSE, value |-> app # NoRow, deleted |-> app]

\* delete_function_by_id: as delete_app_by_id, over the functions table.
delete_function_by_id(fault, rows, function_id, api_key_id) ==
    IF Fails(fault, {"functions"})
    THEN IF NamesMissingColumn(StorageError(fault), "functions.api_key_id")
         THEN [raised |-> FALSE, value |-> FALSE, deleted |-> NoRow]
         ELSE [raised |-> TRUE, value |-> FALSE, deleted |-> NoRow]
    ELSE
      LET found == {r \in rows :
                      /\ r.id = function_id
                      /\ ColumnEquals(r.api_key_id, api_key_id) = "true"}
          function == IF found = {} THEN NoRow ELSE CHOOSE r \in found : TRUE
      IN  [raised |-> FALSE, value |-> function # NoRow, deleted |-> function]

\* The rows of a table that the flush of a deleted App removes with it: the
\* rows that reference the App.
ReferencesTo(app, rows) == {r \in rows : r.app_id = app.id}

\* The tables before a call, as the call's record keeps them.
Tables ==
    [apps |-> apps, functions |-> functions,
     app_configurations |-> app_configurations,
     linked_accounts |-> linked_accounts, agents |-> agents]

\* The flush of db_session.delete(app): the App row goes, and with it the
\* configurations, the linked accounts and the functions that reference it.
FlushDeletedApp(app) ==
    /\ apps' = apps \ {app}
    /\ functions' = functions \ ReferencesTo(app, functions)
    /\ app_configurations' =
          app_configurations \ ReferencesTo(app, app_configurations)
    /\ linked_accounts' = linked_accounts \ ReferencesTo(app, linked_accounts)

DeleteAppById(fault, app_id, api_key_id) ==
    /\ Idle
    /\ LET result == delete_app_by_id(fault, apps, app_id, api_key_id)
       IN  /\ IF result.value
              THEN FlushDeletedApp(result.deleted)
              ELSE UNCHANGED <<apps, functions, app_configurations,
                               linked_accounts>>
           /\ last' = [op |-> "delete_app_by_id", fault |-> fault,
                       id |-> app_id, api_key_id |-> api_key_id,
                       raised |-> result.raised, value |-> result.value,
                       before |-> Tables]
    /\ UNCHANGED <<nextId, nextFunctionId, inflight, agents>>

DeleteFunctionById(fault, function_id, api_key_id) ==
    /\ Idle
    /\ LET result == delete_function_by_id(fault, functions, function_id,
                                           api_key_id)
       IN  /\ functions' = IF result.value
                           THEN functions \ {result.deleted}
                           ELSE functions
           /\ last' = [op |-> "delete_function_by_id", fault |-> fault,
                       id |-> function_id, api_key_id |-> api_key_id,
                       raised |-> result.raised, value |-> result.value,
                       before |-> Tables]
    /\ UNCHANGED <<apps, nextId, nextFunctionId, app_configurations,
                   linked_accounts, inflight, agents>>

\* delete_my_custom_app (tool_seeding.py 709-756): the route looks the App
\* up by name alone, compares its owner with the caller and deletes by id.
DeleteMyCustomApp(app_name, api_key_id) ==
    /\ Idle
    /\ \E scan \in Perms(apps) :
         LET app == get_app(scan, app_name, FALSE, FALSE, NULL)
             result == delete_app_by_id("none", apps, app.id, api_key_id)
             status == IF app = NoRow THEN 404
                       ELSE IF app.api_key_id # api_key_id THEN 403
                       ELSE IF result.value THEN 200 ELSE 404
         IN  /\ IF status = 200
                THEN FlushDeletedApp(result.deleted)
                ELSE UNCHANGED <<apps, functions, app_configurations,
                                 linked_accounts>>
             /\ last' = [op |-> "delete_my_custom_app",
                         app_name |-> app_name, api_key_id |-> api_key_id,
                         status |-> status, before |-> Tables]
    /\ UNCHANGED <<nextId, nextFunctionId, inflight, agents>>

\* delete_my_custom_function (tool_seeding.py 759-805): as the route of the
\* Apps, with get_function called without a key.
DeleteMyCustomFunction(function_name, api_key_id) ==
    /\ Idle
    /\ \E fscan \in Perms(functions) :
         LET function == get_function(fscan, apps, function_name, FALSE,
                                      FALSE, NULL)
             result == delete_function_by_id("none", functions, function.id,
                                             api_key_id)
             status == IF function = NoRow THEN 404
                       ELSE IF function.api_key_id # api_key_id THEN 403
                       ELSE IF result.value THEN 200 ELSE 404
         IN  /\ functions' = IF status = 200
                             THEN functions \ {result.deleted}
                             ELSE functions
             /\ last' = [op |-> "delete_my_custom_function",
                         function_name |-> function_name,
                         api_key_id |-> api_key_id,
                         status |-> status, before |-> Tables]
    /\ UNCHANGED <<apps, nextId, nextFunctionId, app_configurations,
                   linked_accounts, inflight, agents>>

-----------------------------------------------------------------------------
(* SpecDelete: functions created and updated, apps and functions deleted *)

\* A row that references an App: a configuration or a linked account.
LinkedTo(id, app_id) == [id |-> id, app_id |-> app_id]

\* The seeded catalog, the tenant's App X with one configuration and one
\* linked account.
InitLinked ==
    /\ apps = {SeedApp(1, PRIVATE, "KA"),
               SeedApp(2, PUBLIC, LYZR_API_KEY_ID_DB),
               SeedApp(3, PUBLIC, NULL)}
    /\ functions = {}
    /\ nextId = 4
    /\ nextFunctionId = 1
    /\ last = NoCall
    /\ app_configurations = {LinkedTo(1, 1)}
    /\ linked_accounts = {LinkedTo(1, 1)}
    /\ inflight = {}
    /\ agents = {}

\* The keys a delete is called with; the parameter is a UUID, never None.
DeleteKeys == {"KA", "KC", LYZR_API_KEY_ID_DB}

\* The ids a delete is called with, one past the ids ever given included.
AppIds == 1..(MaxApps + 1)
FunctionIds == 1..(MaxFunctionId + 1)

NextDelete ==
    \/ \E batch \in SeqsUpTo(CreateUpserts, MaxBatch), k \in BatchKeys :
         CreateFunctions(batch, [i \in 1..Len(batch) |-> <<1, 0>>], k)
    \/ \E batch \in SeqsUpTo(UpdateUpserts, MaxBatch), k \in BatchKeys :
         UpdateFunctions(batch, [i \in 1..Len(batch) |-> NoVector], k)
    \/ \E id \in AppIds, k \in DeleteKeys : DeleteAppById("none", id, k)
    \/ \E id \in FunctionIds, k \in DeleteKeys :
         DeleteFunctionById("none", id, k)
    \/ \E k \in DeleteKeys : DeleteMyCustomApp(AppX, k)
    \/ \E k \in DeleteKeys : DeleteMyCustomFunction(FnXF, k)
    \/ Respond

SpecDelete == InitLinked /\ [][NextDelete]_vars

-----------------------------------------------------------------------------
(* Properties of the deletes *)

\* C15: in every state reached by create_functions, update_functions and
\* the owner deletes, the app_id of each stored function is the id of a
\* stored App whose name is the part of the function's name before the
\* first "__"; and create_functions raises for a batch with a function whose
\* name prefix no stored App has.
C15_FunctionsReferenceTheirApp ==
    /\ \A f \in functions :
          \E a \in apps :
             /\ a.id = f.app_id
             /\ a.name = parse_app_name_from_function_name(f.name)
    /\ (/\ last.op = "create_functions"
        /\ \E i \in 1..Len(last.functions_upsert) :
              \A a \in apps :
                 a.name # parse_app_name_from_function_name(
                              last.functions_upsert[i].values.name))
         => last.raised

\* An owner deleted an App that had a function while another function was
\* stored, which stays.
C15_Witness ==
    /\ last.op = "delete_app_by_id"
    /\ last.value
    /\ \E f \in last.before.functions : f.app_id = last.id
    /\ functions # {}

\* The tables are as they were before the last call.
TablesUnchanged == Tables = last.before

\* C16: delete_app_by_id and delete_function_by_id do not raise; they
\* return true exactly when a row with the id is stored and its owner key is
\* the key supplied, and then that row is gone from its table; otherwise
\* they return false and every table is as before.
C16_DeleteOnlyOwnedRow ==
    /\ (last.op = "delete_app_by_id" /\ last.fault = "none") =>
         LET owned == {a \in last.before.apps :
                         a.id = last.id /\ a.api_key_id = last.api_key_id}
         IN  /\ ~last.raised
             /\ last.value <=> owned # {}
             /\ owned # {} => apps = last.before.apps \ owned
             /\ owned = {} => TablesUnchanged
    /\ (last.op = "delete_function_by_id" /\ last.fault = "none") =>
         LET owned == {f \in last.before.functions :
                         f.id = last.id /\ f.api_key_id = last.api_key_id}
         IN  /\ ~last.raised
             /\ last.value <=> owned # {}
             /\ owned # {} =>
                  /\ functions = last.before.functions \ owned
                  /\ apps = last.before.apps
             /\ owned = {} => TablesUnchanged

\* A key was given with the id of a stored App that nobody owns: the
\* delete returned false.
C16_Witness ==
    /\ last.op = "delete_app_by_id"
    /\ ~last.value
    /\ \E a \in apps : a.id = last.id /\ a.api_key_id = NULL

\* C17: when the caller of the delete owns an App of the name, the delete
\* succeeds and the App, its configuration and its linked account are gone;
\* when the caller owns none, the delete fails and every record remains.
C17_OwnerDeleteRemovesAppAndLinks ==
    last.op = "delete_my_custom_app" =>
      LET owned == {a \in last.before.apps :
                      a.name = last.app_name /\ a.api_key_id = last.api_key_id}
      IN  /\ owned # {} =>
               /\ last.status = 200
               /\ \A a \in owned :
                     /\ a \notin apps
                     /\ ReferencesTo(a, app_configurations) = {}
                     /\ ReferencesTo(a, linked_accounts) = {}
          /\ owned = {} => (last.status # 200 /\ TablesUnchanged)

-----------------------------------------------------------------------------
(* SpecDrift: the reads and the delete of the apps table under storage faults *)

\* The outcome of a call: whether it raised, and the value it returned.
Raised(value) == [raised |-> TRUE, value |-> value]
Returned(value) == [raised |-> FALSE, value |-> value]

\* get_apps_by_api_key_id (apps.py 179-191): statement and execute are
\* inside the try.
get_apps_by_api_key_id(fault, scan, api_key_id) ==
    IF Fails(fault, {"apps"})
    THEN IF NamesMissingColumn(StorageError(fault), "apps.api_key_id")
         THEN Returned(<<>>)
         ELSE Raised(<<>>)
    ELSE Returned(SelectSeq(scan, LAMBDA a:
                      ColumnEquals(a.api_key_id, api_key_id) = "true"))

\* get_app_by_name_and_api_key_id (apps.py 193-206) with its try.
get_app_by_name_and_api_key_id_try(fault, rows, app_name, api_key_id) ==
    IF Fails(fault, {"apps"})
    THEN IF NamesMissingColumn(StorageError(fault), "apps.api_key_id")
         THEN Returned(NoRow)
         ELSE Raised(NoRow)
    ELSE Returned(get_app_by_name_and_api_key_id(rows, app_name, api_key_id))

\* The None given for limit or offset.
NoInt == -1

\* get_apps (apps.py 97-128): the try encloses only the construction of the
\* ownership filter, which sends nothing to the database; the execute of
\* line 128 is outside it.
get_apps(fault, scan, public_only, active_only, app_names, limit, offset, api_key_id) ==
    IF Fails(fault, {"apps"})
    THEN Raised(<<>>)
    ELSE
      LET kept == SelectSeq(scan, LAMBDA a:
                     /\ public_only => a.visibility = PUBLIC
                     /\ active_only => a.active
                     /\ ~app_names.none => a.name \in Range(app_names.items)
                     /\ api_key_id # NULL =>
                           OwnerOrFallback(a, api_key_id) = "true")
          skipped == IF offset # NoInt
                     THEN SubSeq(kept, offset + 1, Len(kept)) ELSE kept
      IN  Returned(IF limit # NoInt /\ limit < Len(skipped)
                   THEN SubSeq(skipped, 1, limit) ELSE skipped)

\* get_app (apps.py 74-87) has no try: what execute raises reaches the caller.
get_app_try(fault, scan, app_name, public_only, active_only, api_key_id) ==
    IF Fails(fault, {"apps"})
    THEN Raised(NoRow)
    ELSE Returned(get_app(scan, app_name, public_only, active_only,
                          api_key_id))

\* search_functions (functions.py 85-135): the try of lines 120-126 encloses
\* only the construction of the filter; the execute of line 135 is outside it.
search_functions_try(fault, fscan, appRows, public_only, active_only, exclude_api_key_owned) ==
    IF Fails(fault, {"functions", "apps"})
    THEN Raised(<<>>)
    ELSE Returned(search_functions(fscan, appRows, public_only, active_only,
                                   NoneList, NoneList, NoVector,
                                   MaxFunctions, 0, exclude_api_key_owned))

GetAppsByApiKeyId(fault, api_key_id) ==
    /\ Idle
    /\ \E scan \in Perms(apps) :
         LET result == get_apps_by_api_key_id(fault, scan, api_key_id)
         IN  last' = [op |-> "get_apps_by_api_key_id", fault |-> fault,
                      api_key_id |-> api_key_id, raised |-> result.raised,
                      value |-> result.value, before |-> Tables]
    /\ UNCHANGED vars_tables

GetAppByNameAndApiKeyId(fault, app_name, api_key_id) ==
    /\ Idle
    /\ LET result == get_app_by_name_and_api_key_id_try(fault, apps, app_name,
                                                       api_key_id)
       IN  last' = [op |-> "get_app_by_name_and_api_key_id", fault |-> fault,
                    app_name |-> app_name, api_key_id |-> api_key_id,
                    raised |-> result.raised, value |-> result.value,
                    before |-> Tables]
    /\ UNCHANGED vars_tables

GetApps(fault, public_only, active_only, app_names, limit, offset, api_key_id) ==
    /\ Idle
    /\ \E scan \in Perms(apps) :
         LET result == get_apps(fault, scan, public_only, active_only,
                                app_names, limit, offset, api_key_id)
         IN  last' = [op |-> "get_apps", fault |-> fault,
                      public_only |-> public_only,
                      active_only |-> active_only, app_names |-> app_names,
                      limit |-> limit, offset |-> offset,
                      api_key_id |-> api_key_id, raised |-> result.raised,
                      value |-> result.value, before |-> Tables]
    /\ UNCHANGED vars_tables

GetAppTry(fault, app_name, public_only, active_only, api_key_id) ==
    /\ Idle
    /\ \E scan \in Perms(apps) :
         LET result == get_app_try(fault, scan, app_name, public_only,
                                   active_only, api_key_id)
         IN  last' = [op |-> "get_app", fault |-> fault,
                      app_name |-> app_name, public_only |-> public_only,
                      active_only |-> active_only,
                      api_key_id |-> api_key_id, raised |-> result.raised,
                      result |-> result.value, before |-> Tables]
    /\ UNCHANGED vars_tables

SearchFunctionsTry(fault, public_only, active_only, exclude_api_key_owned) ==
    /\ Idle
    /\ \E fscan \in Perms(functions) :
         LET result == search_functions_try(fault, fscan, apps, public_only,
                                            active_only,
                                            exclude_api_key_owned)
         IN  last' = [op |-> "search_functions", fault |-> fault,
                      public_only |-> public_only,
                      active_only |-> active_only,
                      exclude_api_key_owned |-> exclude_api_key_owned,
                      raised |-> result.raised, result |-> result.value,
                      before |-> Tables]
    /\ UNCHANGED vars_tables

NextDrift ==
    \/ \E fault \in Faults, k \in DeleteKeys : GetAppsByApiKeyId(fault, k)
    \/ \E fault \in Faults, k \in DeleteKeys :
         GetAppByNameAndApiKeyId(fault, AppX, k)
    \/ \E fault \in Faults \ {"functions_column"}, id \in AppIds,
          k \in DeleteKeys :
         DeleteAppById(fault, id, k)
    \/ \E fault \in Faults, po \in BOOLEAN, ao \in BOOLEAN,
          names \in {NoneList, ListOf(<<AppX>>)},
          page \in {<<NoInt, NoInt>>, <<1, 1>>}, k \in LookupKeys :
         GetApps(fault, po, ao, names, page[1], page[2], k)
    \/ \E fault \in Faults, po \in BOOLEAN, ao \in BOOLEAN, k \in LookupKeys :
         GetAppTry(fault, AppX, po, ao, k)
    \/ \E fault \in Faults, po \in BOOLEAN, ao \in BOOLEAN, ex \in BOOLEAN :
         SearchFunctionsTry(fault, po, ao, ex)
    \/ \E batch \in SeqsUpTo(CreateUpserts, 1), k \in BatchKeys :
         CreateFunctions(batch, [i \in 1..Len(batch) |-> <<1, 0>>], k)
    \/ Respond

SpecDrift == InitLinked /\ [][NextDrift]_vars

-----------------------------------------------------------------------------
(* Properties under storage faults *)

\* C18: when the api_key_id column of the apps table is missing,
\* get_apps_by_api_key_id returns an empty list, get_app_by_name_and_api_key_id
\* returns None and delete_app_by_id returns false, none raises and no table
\* changes; under another storage error each of them raises; without a fault
\* on the apps table none raises.
C18_MissingColumnSwallowed ==
    last.op \in {"get_apps_by_api_key_id", "get_app_by_name_and_api_key_id",
                 "delete_app_by_id"} =>
      /\ last.fault = "apps_column" =>
           /\ ~last.raised
           /\ TablesUnchanged
           /\ last.op = "get_apps_by_api_key_id" => last.value = <<>>
           /\ last.op = "get_app_by_name_and_api_key_id" => last.value = NoRow
           /\ last.op = "delete_app_by_id" => last.value = FALSE
      /\ last.fault = "other" => (last.raised /\ TablesUnchanged)
      /\ last.fault \in {"none", "functions_column"} => ~last.raised

\* The column was missing while the key owned an App: the list came back
\* empty.
C18_Witness ==
    /\ last.op = "get_apps_by_api_key_id"
    /\ last.fault = "apps_column"
    /\ \E a \in apps : a.api_key_id = last.api_key_id
    /\ last.value = <<>>
    /\ ~last.raised

\* C19: when the api_key_id column is missing, get_apps and get_app called
\* with an owner key, and search_functions with its ownership filter, return
\* without raising.
C19_MissingColumnNeverRaises ==
    /\ (/\ last.op \in {"get_apps", "get_app"}
        /\ last.fault = "apps_column"
        /\ last.api_key_id # NULL) => ~last.raised
    /\ (/\ last.op = "search_functions"
        /\ last.fault = "functions_column"
        /\ last.exclude_api_key_owned) => ~last.raised

-----------------------------------------------------------------------------
(* SpecRace: concurrent requests to the upsert-app-json route *)

MaxRequests == 2

Requests == 1..MaxRequests

RaceKeys == {"KA", "KC"}

RaceUpserts == {AppUpsertOf(d, NULL, {"display_name"}) : d \in DisplayNames}

\* The request p in progress.
Request(p) == CHOOSE r \in inflight : r.pid = p

InProgress(p) == \E r \in inflight : r.pid = p

\* The composite unique constraint on (name, api_key_id): a stored row with
\* the same pair rejects the insert.
UniqueViolation(rows, row) ==
    \E a \in rows : /\ a.name = row.name
                    /\ ColumnEquals(a.api_key_id, row.api_key_id) = "true"

\* The rows other requests have inserted and not yet committed.
UncommittedOthers(p) ==
    {r.pending : r \in {q \in inflight : q.pid # p /\ q.pc = "commit"
                                                   /\ q.found = NoRow}}

\* The two responses of upsert_app_from_json (tool_seeding.py 470-520): the
\* success of line 496, and the one of the except Exception of line 513 that
\* every error ends in.
ResponseSuccess(app_id) == [success |-> TRUE, outcome |-> "upserted", app_id |-> app_id]
ResponseFailed(error) == [success |-> FALSE, outcome |-> "failed", error |-> error]
NoResponse == [success |-> FALSE, outcome |-> "none"]

\* The route is entered and the helper called.
BeginUpsert(p, app_upsert, api_key_id, embedding) ==
    /\ ~InProgress(p)
    /\ nextId <= MaxApps
    /\ inflight' = inflight \cup
         {[pid |-> p, pc |-> "lookup", app_upsert |-> app_upsert,
           api_key_id |-> api_key_id, embedding |-> embedding,
           found |-> NoRow, pending |-> NoRow, response |-> NoResponse]}
    /\ UNCHANGED <<apps, functions, nextId, nextFunctionId, last,
                   app_configurations, linked_accounts, agents>>

\* The helper looks the App up by name and owner; it sees committed rows.
LookupExisting(p) ==
    /\ InProgress(p)
    /\ Request(p).pc = "lookup"
    /\ LET r == Request(p)
           existing == get_app_by_name_and_api_key_id(
                           apps, r.app_upsert.values.name, r.api_key_id)
       IN  inflight' = (inflight \ {r}) \cup
             {[r EXCEPT !.found = existing,
                        !.pc = IF existing = NoRow THEN "create"
                               ELSE "update"]}
    /\ UNCHANGED <<apps, functions, nextId, nextFunctionId, last,
                   app_configurations, linked_accounts, agents>>

\* create_app's flush: the insert waits for an uncommitted row of the same
\* pair, is rejected by a committed one, and is otherwise pending until the
\* commit.
FlushCreate(p) ==
    /\ InProgress(p)
    /\ Request(p).pc = "create"
    /\ LET r == Request(p)
           row == create_app(r.app_upsert, r.embedding, r.api_key_id, nextId)
       IN  /\ ~UniqueViolation(UncommittedOthers(p), row)
           /\ IF UniqueViolation(apps, row)
              THEN /\ inflight' = (inflight \ {r}) \cup
                        {[r EXCEPT !.pc = "done",
                                   !.response =
                                      ResponseFailed("IntegrityError")]}
                   /\ UNCHANGED nextId
              ELSE /\ inflight' = (inflight \ {r}) \cup
                        {[r EXCEPT !.pc = "commit", !.pending = row]}
                   /\ nextId' = nextId + 1
    /\ UNCHANGED <<apps, functions, nextFunctionId, last,
                   app_configurations, linked_accounts, agents>>

\* update_app on the row found, pending until the commit.
FlushUpdate(p) ==
    /\ InProgress(p)
    /\ Request(p).pc = "update"
    /\ LET r == Request(p)
       IN  inflight' = (inflight \ {r}) \cup
             {[r EXCEPT !.pc = "commit",
                        !.pending = update_app(r.found, r.app_upsert,
                            IF EmbeddingFieldsChanged(r.found, r.app_upsert)
                            THEN r.embedding ELSE NoVector)]}
    /\ UNCHANGED <<apps, functions, nextId, nextFunctionId, last,
                   app_configurations, linked_accounts, agents>>

\* The commit makes the pending row visible and the route answers.
CommitUpsert(p) ==
    /\ InProgress(p)
    /\ Request(p).pc = "commit"
    /\ LET r == Request(p)
       IN  /\ apps' = {a \in apps : a.id # r.pending.id} \cup {r.pending}
           /\ inflight' = (inflight \ {r}) \cup
                {[r EXCEPT !.pc = "done",
                           !.response = ResponseSuccess(r.pending.id)]}
    /\ UNCHANGED <<functions, nextId, nextFunctionId, last,
                   app_configurations, linked_accounts, agents>>

NextRace ==
    \/ \E p \in Requests, u \in RaceUpserts, k \in RaceKeys :
         BeginUpsert(p, u, k, <<1, 0>>)
    \/ \E p \in Requests : LookupExisting(p)
    \/ \E p \in Requests : FlushCreate(p)
    \/ \E p \in Requests : FlushUpdate(p)
    \/ \E p \in Requests : CommitUpsert(p)

SpecRace == Init /\ [][NextRace]_vars

-----------------------------------------------------------------------------
(* Properties of concurrent upserts *)

\* The requests that found no row and whose create the constraint rejected.
LosingCreates ==
    {r \in inflight : r.pc = "done" /\ r.found = NoRow /\ ~r.response.success}

\* C20: of concurrent upserts of one (name, owner key) that both found no
\* row, at most one row for the pair is stored and the rejected create is
\* answered as "already exists", not as a generic failure.
C20_LoserAlreadyExists ==
    /\ \A a, b \in apps :
         (a.name = b.name /\ a.api_key_id = b.api_key_id) => a = b
    /\ \A r \in LosingCreates : r.response.outcome = "already_exists"

-----------------------------------------------------------------------------
(* SpecLifecycle: rows deleted by their owner and upserted again *)

LifecycleUpserts == {AppUpsertOf(d, NULL, {"display_name"}) : d \in DisplayNames}

LifecycleKeys == {"KA", "KC"}

NextLifecycle ==
    \/ \E u \in LifecycleUpserts, k \in LifecycleKeys : UpsertApp(u, k, <<1, 0>>)
    \/ \E id \in 1..(MaxAppId + 1), k \in LifecycleKeys :
         DeleteAppById("none", id, k)
    \/ \E batch \in SeqsUpTo(CreateUpserts, 1), k \in LifecycleKeys :
         CreateFunctions(batch, [i \in 1..Len(batch) |-> <<1, 0>>], k)
    \/ \E id \in FunctionIds, k \in LifecycleKeys :
         DeleteFunctionById("none", id, k)
    \/ Respond

SpecLifecycle == InitLinked /\ [][NextLifecycle]_vars

-----------------------------------------------------------------------------
(* Properties of the row lifecycle *)

IdsOf(rows) == {r.id : r \in rows}

\* C21: the id of a deleted App or Function is never given again: every
\* stored id is below the next fresh id, the fresh ids never decrease, a row
\* that appears carries an id no row had before, and a delete that returns
\* true leaves no row with the id it was given; so an upsert of a deleted
\* row's name under the same owner creates a row with another id.
C21_DeletedIdsNeverReturn ==
    [][/\ \A a \in apps : a.id < nextId
       /\ \A f \in functions : f.id < nextFunctionId
       /\ nextId' >= nextId
       /\ nextFunctionId' >= nextFunctionId
       /\ \A a \in apps' : a.id \notin IdsOf(apps) =>
                              (a.id >= nextId /\ a.id < nextId')
       /\ \A f \in functions' : f.id \notin IdsOf(functions) =>
                              (f.id >= nextFunctionId /\ f.id < nextFunctionId')
       /\ (last'.op = "delete_app_by_id" /\ last'.value) =>
             last'.id \notin IdsOf(apps')
       /\ (last'.op = "delete_function_by_id" /\ last'.value) =>
             last'.id \notin IdsOf(functions')]_vars

\* The App X of key KA, stored at first under id 1, was deleted and upserted
\* again: the row of that name and owner carries a later id.
C21_Witness ==
    /\ last.op = "upsert_app"
    /\ last.api_key_id = "KA"
    /\ 1 \notin IdsOf(apps)
    /\ \E a \in apps : /\ a.name = AppX
                       /\ a.api_key_id = "KA"
                       /\ a.id > 3

-----------------------------------------------------------------------------
(* common/embeddings.py: the embedding provider *)

\* The vector the provider answers with.
ProviderVector == <<1, 0>>

\* The texts sent to the provider are the JSON dumps of the embedding fields;
\* a text is kept as the record of those fields.
AppEmbeddingText(app_upsert) == [c \in AppEmbeddingFields |-> app_upsert.values[c]]
FunctionEmbeddingText(function_upsert) == [name |-> function_upsert.values.name]

\* Faulty variant of generate_embedding: a failed call is made once more.
generate_embedding_Retrying(failing, text) ==
    IF text \in failing
    THEN [raised |-> TRUE, embedding |-> NoVector, calls |-> <<text, text>>]
    ELSE [raised |-> FALSE, embedding |-> ProviderVector, calls |-> <<text>>]

\* generate_embedding (embeddings.py 83-121): one embeddings.create for the
\* text; what it raises is logged and raised again.  calls are the texts sent.
generate_embedding(failing, text) ==
    IF text \in failing
    THEN [raised |-> TRUE, embedding |-> NoVector, calls |-> <<text>>]
    ELSE [raised |-> FALSE, embedding |-> ProviderVector, calls |-> <<text>>]

generate_app_embedding(failing, app_upsert) ==
    generate_embedding(failing, AppEmbeddingText(app_upsert))

generate_function_embedding(failing, function_upsert) ==
    generate_embedding(failing, FunctionEmbeddingText(function_upsert))

\* The loop of generate_function_embeddings (embeddings.py 44-50) from the
\* i-th function on.
RECURSIVE generate_function_embeddings_loop(_, _, _, _, _)
generate_function_embeddings_loop(failing, fns, i, function_embeddings, calls) ==
    IF i > Len(fns)
    THEN [raised |-> FALSE, embeddings |-> ListOf(function_embeddings),
          calls |-> calls]
    ELSE LET r == generate_function_embedding(failing, fns[i])
         IN  IF r.raised
             THEN [raised |-> TRUE, embeddings |-> NoneList,
                   calls |-> calls \o r.calls]
             ELSE generate_function_embeddings_loop(
                      failing, fns, i + 1,
                      Append(function_embeddings, r.embedding),
                      calls \o r.calls)

generate_function_embeddings(failing, fns) ==
    generate_function_embeddings_loop(failing, fns, 1, <<>>, <<>>)

\* The upsert of an App with its embedding: the embedding is generated when
\* the App is new or an embedding field changes, and before any write.
UpsertAppEmbedding(app_upsert, api_key_id, failing) ==
    /\ Idle
    /\ \/ get_app_by_name_and_api_key_id(apps, app_upsert.values.name,
                                         api_key_id) # NoRow
       \/ (Cardinality(apps) < MaxApps /\ nextId <= MaxAppId)
    /\ LET embeds == upsert_app_embeds(apps, app_upsert, api_key_id)
           r == IF embeds THEN generate_app_embedding(failing, app_upsert)
                ELSE [raised |-> FALSE, embedding |-> NoVector,
                      calls |-> <<>>]
       IN  /\ apps' = IF r.raised THEN apps
                      ELSE upsert_app_helper(apps, app_upsert, api_key_id,
                                             r.embedding, nextId)
           /\ nextId' = IF Cardinality(apps') > Cardinality(apps)
                        THEN nextId + 1 ELSE nextId
           /\ last' = [op |-> "upsert_app_embedding",
                       api_key_id |-> api_key_id, failing |-> failing,
                       raised |-> r.raised, calls |-> r.calls,
                       embeddings |-> IF r.raised \/ ~embeds THEN NoneList
                                      ELSE ListOf(<<r.embedding>>),
                       before |-> Tables]
    /\ UNCHANGED <<functions, nextFunctionId, app_configurations,
                   linked_accounts, inflight, agents>>

\* The upsert of a batch of new Functions: the embeddings of the whole batch
\* are generated, then create_functions writes.
UpsertFunctionsEmbedding(functions_upsert, api_key_id, failing) ==
    /\ Idle
    /\ NewForOwner(functions_upsert, api_key_id)
    /\ Cardinality(functions) + Len(functions_upsert) <= MaxFunctions
    /\ nextFunctionId + Len(functions_upsert) - 1 <= MaxFunctionId
    /\ LET r == generate_function_embeddings(failing, functions_upsert)
           result == create_functions(apps, functions, functions_upsert,
                                      r.embeddings.items, api_key_id,
                                      nextFunctionId)
           written == ~r.raised /\ ~result.raised
       IN  /\ functions' = IF written THEN result.table ELSE functions
           /\ nextFunctionId' = IF written
                                THEN nextFunctionId + Len(functions_upsert)
                                ELSE nextFunctionId
           /\ last' = [op |-> "upsert_functions_embedding",
                       api_key_id |-> api_key_id, failing |-> failing,
                       raised |-> r.raised \/ result.raised,
                       calls |-> r.calls, embeddings |-> r.embeddings,
                       before |-> Tables]
    /\ UNCHANGED <<apps, nextId, app_configurations, linked_accounts,
                   inflight, agents>>

-----------------------------------------------------------------------------
(* SpecEmbed: upserts with a provider that fails for some texts *)

EmbedUpserts == {AppUpsertOf(d, NULL, {"display_name"}) : d \in DisplayNames}

EmbedFunctions ==
    {FunctionUpsertOf(FnXF, PUBLIC, TRUE), FunctionUpsertOf(FnXG, PUBLIC, TRUE)}

\* The sets of texts the provider fails for.
Failings ==
    SUBSET ({AppEmbeddingText(u) : u \in EmbedUpserts}
              \cup {FunctionEmbeddingText(f) : f \in EmbedFunctions})

NextEmbed ==
    \/ \E u \in EmbedUpserts, k \in LifecycleKeys, failing \in Failings :
         UpsertAppEmbedding(u, k, failing)
    \/ \E batch \in SeqsUpTo(EmbedFunctions, MaxBatch), k \in LifecycleKeys,
          failing \in Failings :
         UpsertFunctionsEmbedding(batch, k, failing)
    \/ Respond

SpecEmbed == InitLinked /\ [][NextEmbed]_vars

-----------------------------------------------------------------------------
(* Properties of a failing provider *)

\* How many times a text is among the texts sent.
TimesSent(text, calls) == Cardinality({i \in 1..Len(calls) : calls[i] = text})

\* C22: when the provider fails for a text of an upsert, every text was sent
\* at most once and the failing one exactly once, as the last call; the
\* upsert raises, it yields no embeddings, and no table changes.
C22_ProviderFailureIsFatal ==
    (/\ last.op \in {"upsert_app_embedding", "upsert_functions_embedding"}
     /\ \E i \in 1..Len(last.calls) : last.calls[i] \in last.failing) =>
       /\ last.raised
       /\ \A i \in 1..Len(last.calls) : TimesSent(last.calls[i], last.calls) = 1
       /\ last.calls[Len(last.calls)] \in last.failing
       /\ \A i \in 1..(Len(last.calls) - 1) : last.calls[i] \notin last.failing
       /\ last.embeddings = NoneList
       /\ TablesUnchanged

\* A batch of two functions whose second embedding failed after the first
\* was generated.
C22_Witness ==
    /\ last.op = "upsert_functions_embedding"
    /\ Len(last.calls) = 2
    /\ last.calls[2] \in last.failing
    /\ last.calls[1] \notin last.failing
    /\ last.raised
    /\ functions = {}

-----------------------------------------------------------------------------
(* Properties of PRIVATE rows *)

\* C23: get_app and get_function return a PRIVATE row only to the caller
\* whose key is the row's owner key.
C23_PrivateOnlyForOwner ==
    (/\ last.op \in {"get_app", "get_function"}
     /\ last.result # NoRow
     /\ last.result.visibility = PRIVATE) =>
       last.result.api_key_id = last.api_key_id

-----------------------------------------------------------------------------
(* server/routes/app_configurations.py: the configurations of a project *)

\* get_app_by_id (apps.py 90-94): the App of that id, whatever its flags.
get_app_by_id(rows, app_id) ==
    LET found == {r \in rows : r.id = app_id}
    IN  IF found = {} THEN NoRow ELSE CHOOSE r \in found : TRUE

\* The get_app call of create_app_configuration (lines 39-45): active_only
\* is True.
get_app_for_configuration(scan, app_name, public_only, api_key_id) ==
    get_app(scan, app_name, public_only, TRUE, api_key_id)

\* The name of the App a row references.
AppNameOf(appRows, row) ==
    LET app == get_app_by_id(appRows, row.app_id)
    IN  IF app = NoRow THEN <<>> ELSE app.name

\* crud.app_configurations: the configurations of a project for an App name
\* or an App id.
get_app_configurations_by_name(rows, appRows, project_id, app_name) ==
    {c \in rows : c.project_id = project_id /\ AppNameOf(appRows, c) = app_name}

get_app_configurations_by_app_id(rows, project_id, app_id) ==
    {c \in rows : c.project_id = project_id /\ c.app_id = app_id}

app_configuration_exists(rows, appRows, project_id, app_name) ==
    get_app_configurations_by_name(rows, appRows, project_id, app_name) # {}

app_configuration_exists_by_app_id(rows, project_id, app_id) ==
    get_app_configurations_by_app_id(rows, project_id, app_id) # {}

\* The configuration row created for a project and an App; what identifies
\* it is the project, the App and the scheme.
NewAppConfiguration(project_id, app, security_scheme) ==
    [project_id |-> project_id, app_id |-> app.id,
     security_scheme |-> security_scheme]

\* The outcome of the checks that the two create routes share, in the order
\* of the code: the App, the existing configuration, the security scheme.
CreateOutcome(app, exists, security_scheme) ==
    IF app = NoRow THEN "AppNotFound"
    ELSE IF exists THEN "AppConfigurationAlreadyExists"
    ELSE IF security_scheme \notin app.security_schemes
         THEN "AppSecuritySchemeNotSupported"
    ELSE "created"

\* The request context: the project, its visibility access and the API key.
Context(project_id, visibility_access, api_key_id) ==
    [project_id |-> project_id, visibility_access |-> visibility_access,
     api_key_id |-> api_key_id]

\* create_app_configuration (lines 31-74).
CreateAppConfiguration(context, app_name, security_scheme) ==
    /\ Idle
    /\ inflight = {}
    /\ \E scan \in Perms(apps) :
         LET app == get_app_for_configuration(
                        scan, app_name,
                        context.visibility_access = PUBLIC,
                        context.api_key_id)
             outcome == CreateOutcome(
                            app,
                            app_configuration_exists(
                                app_configurations, apps,
                                context.project_id, app_name),
                            security_scheme)
         IN  /\ app_configurations' =
                  IF outcome = "created"
                  THEN app_configurations \cup
                         {NewAppConfiguration(
                              context.project_id, app, security_scheme)}
                  ELSE app_configurations
             /\ last' = [op |-> "create_app_configuration",
                         context |-> context, app_name |-> app_name,
                         security_scheme |-> security_scheme,
                         app |-> app, outcome |-> outcome,
                         committed |-> outcome = "created",
                         before |-> Tables]
    /\ UNCHANGED <<apps, functions, nextId, nextFunctionId, linked_accounts,
                   inflight, agents>>

\* create_app_configuration_by_app_id (lines 77-127).
CreateAppConfigurationByAppId(context, app_id, security_scheme) ==
    /\ Idle
    /\ inflight = {}
    /\ LET app == get_app_by_id(apps, app_id)
           outcome == CreateOutcome(
                          app,
                          app_configuration_exists_by_app_id(
                              app_configurations, context.project_id, app_id),
                          security_scheme)
       IN  /\ app_configurations' =
                IF outcome = "created"
                THEN app_configurations \cup
                       {NewAppConfiguration(
                            context.project_id, app, security_scheme)}
                ELSE app_configurations
           /\ last' = [op |-> "create_app_configuration_by_app_id",
                       context |-> context, app_name |-> AppNameOf(apps, [app_id |-> app_id]),
                       security_scheme |-> security_scheme,
                       app |-> app, outcome |-> outcome,
                       committed |-> outcome = "created",
                       before |-> Tables]
    /\ UNCHANGED <<apps, functions, nextId, nextFunctionId, linked_accounts,
                   inflight, agents>>

\* crud.linked_accounts and crud.projects: what the delete routes remove.
\* Faulty variant of linked_accounts_of: no linked account is found.
linked_accounts_of_None(rows, appRows, project_id, by, target) == {}

\* The linked accounts of a project for an App name (by = "name") or an App
\* id (by = "app_id").
linked_accounts_of(rows, appRows, project_id, by, target) ==
    IF by = "name"
    THEN {a \in rows : a.project_id = project_id
                         /\ AppNameOf(appRows, a) = target}
    ELSE {a \in rows : a.project_id = project_id /\ a.app_id = target}

app_configurations_of(rows, appRows, project_id, by, target) ==
    IF by = "name"
    THEN get_app_configurations_by_name(rows, appRows, project_id, target)
    ELSE get_app_configurations_by_app_id(rows, project_id, target)

\* The App name the third step removes from allowed_apps.
allowed_app_name(appRows, by, target) ==
    IF by = "name" THEN target ELSE AppNameOf(appRows, [app_id |-> target])

delete_app_from_agents_allowed_apps(rows, project_id, app_name) ==
    {IF g.project_id = project_id
     THEN [g EXCEPT !.allowed_apps = @ \ {app_name}] ELSE g : g \in rows}

\* The one request to a delete route in progress.
DeleteRequest == CHOOSE r \in inflight : r.op = "delete_app_configuration"

Deleting(pc) ==
    /\ \E r \in inflight : r.op = "delete_app_configuration"
    /\ DeleteRequest.pc = pc

\* The request a delete route starts once it has found the configuration.
NewDeleteRequest(context, by, target) ==
    [op |-> "delete_app_configuration", pc |-> "linked_accounts", by |-> by,
     context |-> context, target |-> target, steps |-> <<>>, commits |-> 0,
     del_linked_accounts |-> {}, del_app_configurations |-> {},
     del_allowed_app |-> <<>>, before |-> Tables]

\* The call a delete route ends with when it finds no configuration.
DeleteNotFound(context, by, target) ==
    [op |-> "delete_app_configuration", by |-> by, context |-> context,
     target |-> target, outcome |-> "AppConfigurationNotFound",
     steps |-> <<>>, commits |-> 0, before |-> Tables]

\* delete_app_configuration up to the check of the configuration (lines
\* 217-225): without a configuration AppConfigurationNotFound is raised.
DeleteAppConfiguration(context, app_name) ==
    /\ Idle
    /\ inflight = {}
    /\ IF get_app_configurations_by_name(app_configurations, apps,
                                         context.project_id, app_name) = {}
       THEN /\ last' = DeleteNotFound(context, "name", app_name)
            /\ UNCHANGED inflight
       ELSE /\ inflight' = {NewDeleteRequest(context, "name", app_name)}
            /\ UNCHANGED last
    /\ UNCHANGED <<apps, functions, nextId, nextFunctionId,
                   app_configurations, linked_accounts, agents>>

\* delete_app_configuration_by_app_id up to the check (lines 141-149).
DeleteAppConfigurationByAppId(context, app_id) ==
    /\ Idle
    /\ inflight = {}
    /\ IF get_app_configurations_by_app_id(app_configurations,
                                           context.project_id, app_id) = {}
       THEN /\ last' = DeleteNotFound(context, "app_id", app_id)
            /\ UNCHANGED inflight
       ELSE /\ inflight' = {NewDeleteRequest(context, "app_id", app_id)}
            /\ UNCHANGED last
    /\ UNCHANGED <<apps, functions, nextId, nextFunctionId,
                   app_configurations, linked_accounts, agents>>

\* 1. Delete all linked accounts for this app configuration.
DeleteLinkedAccountsStep ==
    /\ Deleting("linked_accounts")
    /\ LET r == DeleteRequest
       IN  inflight' = {[r EXCEPT
              !.pc = "app_configuration",
              !.steps = Append(@, "linked_accounts"),
              !.del_linked_accounts =
                  linked_accounts_of(linked_accounts, apps,
                      r.context.project_id, r.by, r.target)]}
    /\ UNCHANGED <<apps, functions, nextId, nextFunctionId, last,
                   app_configurations, linked_accounts, agents>>

\* 2. Delete the app configuration record.
DeleteAppConfigurationStep ==
    /\ Deleting("app_configuration")
    /\ LET r == DeleteRequest
       IN  inflight' = {[r EXCEPT
              !.pc = "allowed_apps",
              !.steps = Append(@, "app_configuration"),
              !.del_app_configurations =
                  app_configurations_of(app_configurations, apps,
                      r.context.project_id, r.by, r.target)]}
    /\ UNCHANGED <<apps, functions, nextId, nextFunctionId, last,
                   app_configurations, linked_accounts, agents>>

\* 3. Delete this App from all agents' allowed_apps if it is there.
DeleteFromAllowedAppsStep ==
    /\ Deleting("allowed_apps")
    /\ LET r == DeleteRequest
       IN  inflight' = {[r EXCEPT
              !.pc = "commit",
              !.steps = Append(@, "allowed_apps"),
              !.del_allowed_app = allowed_app_name(apps, r.by, r.target)]}
    /\ UNCHANGED <<apps, functions, nextId, nextFunctionId, last,
                   app_configurations, linked_accounts, agents>>

\* context.db_session.commit(): what the three steps deleted in the session
\* reaches the tables.
CommitDeleteAppConfiguration ==
    /\ Deleting("commit")
    /\ Idle
    /\ LET r == DeleteRequest
       IN  /\ linked_accounts' = linked_accounts \ r.del_linked_accounts
           /\ app_configurations' =
                 app_configurations \ r.del_app_configurations
           /\ agents' = delete_app_from_agents_allowed_apps(
                            agents, r.context.project_id, r.del_allowed_app)
           /\ last' = [op |-> "delete_app_configuration", by |-> r.by,
                       context |-> r.context, target |-> r.target,
                       outcome |-> "deleted", steps |-> r.steps,
                       commits |-> r.commits + 1, before |-> r.before]
    /\ inflight' = {}
    /\ UNCHANGED <<apps, functions, nextId, nextFunctionId>>

-----------------------------------------------------------------------------
(* SpecConfig: configurations created and deleted by two projects *)

SecuritySchemes == {"API_KEY", "OAUTH2"}

\* Three Apps: X of key KA, X and Z of the platform key, Z inactive; the
\* second scheme is supported by the platform's X alone.
ConfigApps ==
    {SeedApp(1, PRIVATE, "KA"),
     [SeedApp(2, PUBLIC, LYZR_API_KEY_ID_DB)
        EXCEPT !.security_schemes = SecuritySchemes],
     [SeedApp(3, PUBLIC, LYZR_API_KEY_ID_DB)
        EXCEPT !.name = AppZ, !.active = FALSE]}

\* Project P1 reaches PUBLIC Apps only; project P2 has two keys.
Contexts ==
    {Context("P1", PUBLIC, "KA"), Context("P2", PRIVATE, "KA"),
     Context("P2", PRIVATE, "KC")}

InitConfig ==
    /\ apps = ConfigApps
    /\ functions = {}
    /\ nextId = 4
    /\ nextFunctionId = 1
    /\ last = NoCall
    /\ app_configurations =
          {NewAppConfiguration("P2", SeedApp(2, PUBLIC, NULL), "API_KEY")}
    /\ linked_accounts = {[id |-> 1, project_id |-> "P2", app_id |-> 2]}
    /\ inflight = {}
    /\ agents = {[id |-> 1, project_id |-> "P2",
                  allowed_apps |-> {AppX, AppZ}]}

NextConfig ==
    \/ \E c \in Contexts, n \in {AppX, AppZ}, sch \in SecuritySchemes :
         CreateAppConfiguration(c, n, sch)
    \/ \E c \in Contexts, id \in AppIds, sch \in SecuritySchemes :
         CreateAppConfigurationByAppId(c, id, sch)
    \/ \E c \in Contexts, n \in {AppX, AppZ} : DeleteAppConfiguration(c, n)
    \/ \E c \in Contexts, id \in AppIds : DeleteAppConfigurationByAppId(c, id)
    \/ DeleteLinkedAccountsStep
    \/ DeleteAppConfigurationStep
    \/ DeleteFromAllowedAppsStep
    \/ CommitDeleteAppConfiguration
    \/ \E a \in BOOLEAN : SetAppActiveStatus(AppZ, a)
    \/ Respond

SpecConfig == InitConfig /\ [][NextConfig]_vars

-----------------------------------------------------------------------------
(* Properties of the configuration routes *)

\* Whether the App resolves by name for the context: it is active, and
\* PUBLIC when the project reaches PUBLIC Apps only.
ResolvesFor(app, context) ==
    /\ app # NoRow
    /\ app.active
    /\ context.visibility_access = PUBLIC => app.visibility = PUBLIC

\* What create_app_configuration does on one call: it creates and commits
\* exactly when the App resolves, no configuration of the project has the App
\* name and the scheme is supported; otherwise it raises the first of
\* AppNotFound, AppConfigurationAlreadyExists, AppSecuritySchemeNotSupported
\* that applies and writes nothing.
CreateByNameChecked ==
    last.op = "create_app_configuration" =>
      LET existed == get_app_configurations_by_name(
                         last.before.app_configurations, last.before.apps,
                         last.context.project_id, last.app_name) # {}
          supported == last.security_scheme \in last.app.security_schemes
      IN  /\ last.outcome = "AppNotFound" <=> last.app = NoRow
          /\ last.app # NoRow => ResolvesFor(last.app, last.context)
          /\ last.outcome = "AppConfigurationAlreadyExists" <=>
                (last.app # NoRow /\ existed)
          /\ last.outcome = "AppSecuritySchemeNotSupported" <=>
                (last.app # NoRow /\ ~existed /\ ~supported)
          /\ last.outcome = "created" <=>
                (last.app # NoRow /\ ~existed /\ supported)
          /\ last.outcome = "created" =>
                /\ last.committed
                /\ Cardinality(app_configurations) =
                      Cardinality(last.before.app_configurations) + 1
          /\ last.outcome # "created" =>
                (~last.committed /\ TablesUnchanged)

\* A project has at most one configuration per App name.
OneConfigurationPerAppName ==
    \A c, d \in app_configurations :
       (c.project_id = d.project_id /\ AppNameOf(apps, c) = AppNameOf(apps, d))
          => c = d

\* C24: create_app_configuration creates and commits only when the App
\* resolves, no configuration exists for the project and App name and the
\* scheme is supported, raises AppNotFound, AppConfigurationAlreadyExists or
\* AppSecuritySchemeNotSupported in that order otherwise and writes nothing;
\* and a project never has two configurations for one App name.
C24_CreateCheckedAndOnePerName ==
    CreateByNameChecked /\ OneConfigurationPerAppName

\* C25: a configuration is created, by either create route, only for an App
\* that resolves for the project: active, and PUBLIC when the project reaches
\* PUBLIC Apps only.
C25_CreatedOnlyForResolvableApp ==
    (/\ last.op \in {"create_app_configuration",
                     "create_app_configuration_by_app_id"}
     /\ last.outcome = "created") => ResolvesFor(last.app, last.context)

\* Whether a row of the project is about the App a delete route was given.
IsAbout(row, call) ==
    /\ row.project_id = call.context.project_id
    /\ IF call.by = "name" THEN AppNameOf(apps, row) = call.target
       ELSE row.app_id = call.target

\* The tables the delete routes write.
ConfigurationTables(t) == <<t.app_configurations, t.linked_accounts, t.agents>>

\* C27: the delete routes delete the linked accounts, then the configuration,
\* then the App from the agents' allowed_apps, and commit once after the three
\* steps: until the commit no table has changed; after it the project has no
\* linked account and no configuration for the App and no agent of the
\* project allows it.  Without a configuration AppConfigurationNotFound is
\* raised and nothing is deleted.
C27_DeleteStepsInOrderThenCommit ==
    /\ \A r \in inflight : r.op = "delete_app_configuration" =>
          /\ ConfigurationTables(Tables) = ConfigurationTables(r.before)
          /\ r.commits = 0
          /\ r.steps \in {<<>>, <<"linked_accounts">>,
                          <<"linked_accounts", "app_configuration">>,
                          <<"linked_accounts", "app_configuration",
                            "allowed_apps">>}
    /\ (last.op = "delete_app_configuration" /\ last.outcome = "deleted") =>
          /\ last.steps = <<"linked_accounts", "app_configuration",
                            "allowed_apps">>
          /\ last.commits = 1
          /\ \E c \in last.before.app_configurations : IsAbout(c, last)
          /\ \A c \in app_configurations : ~IsAbout(c, last)
          /\ \A a \in linked_accounts : ~IsAbout(a, last)
          /\ \A g \in agents : g.project_id = last.context.project_id =>
                allowed_app_name(apps, last.by, last.target)
                   \notin g.allowed_apps
    /\ (/\ last.op = "delete_app_configuration"
        /\ last.outcome = "AppConfigurationNotFound") =>
          /\ last.steps = <<>>
          /\ last.commits = 0
          /\ TablesUnchanged
          /\ \A c \in app_configurations : ~IsAbout(c, last)

\* A delete by App name that removed a linked account, the configuration
\* and the App from an agent's allowed_apps.
C27_Witness ==
    /\ last.op = "delete_app_configuration"
    /\ last.by = "name"
    /\ last.outcome = "deleted"
    /\ Cardinality(linked_accounts) < Cardinality(last.before.linked_accounts)
    /\ Cardinality(app_configurations)
          < Cardinality(last.before.app_configurations)
    /\ agents # last.before.agents

-----------------------------------------------------------------------------
(* Properties of the routes that delete the caller's own rows *)

\* The rows of that name that the key owns.
OwnRows(rows, name, api_key_id) ==
    {r \in rows : r.name = name /\ r.api_key_id = api_key_id}

\* C26: when the caller's key owns an App (a Function) of the given name,
\* delete_my_custom_app (delete_my_custom_function) answers success and the
\* row is gone, whatever rows of that name other keys own; and the rows the
\* route removes from the table are the caller's.
C26_OwnRowDeletedWhateverOthersOwn ==
    /\ last.op = "delete_my_custom_app" =>
         /\ OwnRows(last.before.apps, last.app_name, last.api_key_id) # {} =>
               /\ last.status = 200
               /\ OwnRows(apps, last.app_name, last.api_key_id) = {}
         /\ \A a \in last.before.apps \ apps : a.api_key_id = last.api_key_id
    /\ last.op = "delete_my_custom_function" =>
         /\ OwnRows(last.before.functions, last.function_name,
                    last.api_key_id) # {} =>
               /\ last.status = 200
               /\ OwnRows(functions, last.function_name, last.api_key_id) = {}
         /\ \A f \in last.before.functions \ functions :
               f.api_key_id = last.api_key_id

-----------------------------------------------------------------------------
(* server/routes/tool_seeding.py: upsert_app_via_api *)

\* A request and what it finds: whether the app file exists, the secrets
\* path ("none", or the path of a file that "exists" or is "missing"),
\* whether a secrets object is given, the App of the file and whether the
\* helper raises.
AppUpsertRequest(app_exists, secrets_path, secrets, app_upsert, helper_raises) ==
    [app_exists |-> app_exists, secrets_path |-> secrets_path,
     secrets |-> secrets, app_upsert |-> app_upsert,
     helper_raises |-> helper_raises]

\* The local variable app_id before any assignment.
Unbound == 0

\* upsert_app_via_api (lines 86-156) on the table rows.  The call of the
\* helper is inside the elif of the secrets object (lines 125-138); the return
\* of line 144 reads app_id, which is unbound when the helper was not called,
\* and the except Exception of line 152 answers success=False.
upsert_app_via_api(rows, request, id) ==
    IF ~request.app_exists
    THEN [status |-> 404, success |-> FALSE, helper_calls |-> 0,
          app_id |-> Unbound, table |-> rows]
    ELSE IF request.secrets_path # "none"
    THEN IF request.secrets_path = "missing"
         THEN [status |-> 404, success |-> FALSE, helper_calls |-> 0,
               app_id |-> Unbound, table |-> rows]
         ELSE [status |-> 200, success |-> FALSE, helper_calls |-> 0,
               app_id |-> Unbound, table |-> rows]
    ELSE IF request.secrets
    THEN IF request.helper_raises
         THEN [status |-> 200, success |-> FALSE, helper_calls |-> 1,
               app_id |-> Unbound, table |-> rows]
         ELSE LET table == upsert_app_helper(rows, request.app_upsert, NULL,
                                             ProviderVector, id)
                  written == table \ rows
                  app == IF written = {}
                         THEN CHOOSE r \in table :
                                r.name = request.app_upsert.values.name
                         ELSE CHOOSE r \in written : TRUE
              IN  [status |-> 200, success |-> TRUE, helper_calls |-> 1,
                   app_id |-> app.id, table |-> table]
    ELSE [status |-> 200, success |-> FALSE, helper_calls |-> 0,
          app_id |-> Unbound, table |-> rows]

UpsertAppViaApi(request) ==
    /\ Idle
    /\ Cardinality(apps) < MaxApps
    /\ LET response == upsert_app_via_api(apps, request, nextId)
       IN  /\ apps' = response.table
           /\ nextId' = IF Cardinality(apps') > Cardinality(apps)
                        THEN nextId + 1 ELSE nextId
           /\ last' = [op |-> "upsert_app_via_api", request |-> request,
                       status |-> response.status,
                       success |-> response.success,
                       helper_calls |-> response.helper_calls,
                       app_id |-> response.app_id, before |-> Tables]
    /\ UNCHANGED <<functions, nextFunctionId, app_configurations,
                   linked_accounts, inflight, agents>>

-----------------------------------------------------------------------------
(* SpecSeedApi: requests to the upsert-app route *)

SeedRequests ==
    {AppUpsertRequest(e, sp, sec, u, hr) :
        e \in BOOLEAN, sp \in {"none", "exists", "missing"},
        sec \in BOOLEAN, u \in LifecycleUpserts, hr \in BOOLEAN}

NextSeedApi ==
    \/ \E request \in SeedRequests : UpsertAppViaApi(request)
    \/ Respond

SpecSeedApi == Init /\ [][NextSeedApi]_vars

\* C28: for a request whose app file exists, with the secrets in a file that
\* exists, in the request or absent, and a helper that does not raise,
\* upsert_app_via_api calls the helper once and answers success with the id
\* of the App.
C28_HelperCalledOnceForEveryRequest ==
    (/\ last.op = "upsert_app_via_api"
     /\ last.request.app_exists
     /\ last.request.secrets_path # "missing"
     /\ ~last.request.helper_raises) =>
       /\ last.helper_calls = 1
       /\ last.success
       /\ \E a \in apps : a.id = last.app_id
                            /\ a.name = last.request.app_upsert.values.name

-----------------------------------------------------------------------------
(* SpecFlags: the active and visibility flags set by name *)

FlagFunctions ==
    {FunctionUpsertOf(n, PUBLIC, a) : n \in {FnXF, FnXG}, a \in BOOLEAN}

InitFlags ==
    /\ apps = {SeedApp(1, PRIVATE, "KA"),
               SeedApp(2, PUBLIC, LYZR_API_KEY_ID_DB),
               [SeedApp(3, PUBLIC, NULL) EXCEPT !.name = AppZ]}
    /\ functions = {}
    /\ nextId = 4
    /\ nextFunctionId = 1
    /\ last = NoCall
    /\ app_configurations = {}
    /\ linked_accounts = {}
    /\ inflight = {}
    /\ agents = {}

NextFlags ==
    \/ \E batch \in SeqsUpTo(FlagFunctions, 1), k \in LifecycleKeys :
         CreateFunctions(batch, [i \in 1..Len(batch) |-> <<1, 0>>], k)
    \/ \E n \in {AppX, AppZ}, a \in BOOLEAN : SetAppActiveStatus(n, a)
    \/ \E n \in {AppX, AppZ}, v \in Visibilities : SetAppVisibility(n, v)
    \/ \E n \in {FnXF, FnXG}, a \in BOOLEAN : SetFunctionActiveStatus(n, a)
    \/ \E n \in {FnXF, FnXG}, v \in Visibilities : SetFunctionVisibility(n, v)
    \/ Respond

SpecFlags == InitFlags /\ [][NextFlags]_vars

-----------------------------------------------------------------------------
(* Properties of the flag setters *)

\* The table a setter wrote.
TableOf(op) ==
    IF op \in {"set_app_active_status", "set_app_visibility"}
    THEN apps ELSE functions

\* The column a setter writes and the value it was given.
FlagOf(call) ==
    IF call.op \in {"set_app_active_status", "set_function_active_status"}
    THEN [column |-> "active", value |-> call.active]
    ELSE [column |-> "visibility", value |-> call.visibility]

FlagSetters ==
    {"set_app_active_status", "set_app_visibility",
     "set_function_active_status", "set_function_visibility"}

\* The last call set its flag on every row of the name, whoever owns it, and
\* changed nothing else: the rows are those of before, by id, each with its
\* other columns as they were, the flag as given when the row has the name
\* and as it was otherwise.
OnlyNamedFlagChanged ==
    last.op \in FlagSetters =>
      LET flag == FlagOf(last)
          after == TableOf(last.op)
      IN  /\ {r.id : r \in after} = {r.id : r \in last.before}
          /\ Cardinality(after) = Cardinality(last.before)
          /\ \A b \in last.before : \A a \in after : a.id = b.id =>
                /\ \A c \in (DOMAIN b) \ {flag.column} : a[c] = b[c]
                /\ a[flag.column] = IF b.name = last.name THEN flag.value
                                    ELSE b[flag.column]

\* The last two calls set active to false and then to true for one name.
OffThenOn ==
    /\ last.op \in {"set_app_active_status", "set_function_active_status"}
    /\ last.active
    /\ last.previous.called
    /\ ~last.previous.active
    /\ last.previous.name = last.name

\* C29 as stated: the setters change only the named flag on every row of the
\* name, and active set to false and then to true restores the table before
\* the two calls.
C29_FlagOnlyAndRoundTrip ==
    /\ OnlyNamedFlagChanged
    /\ OffThenOn => TableOf(last.op) = last.previous.before

\* C29, the round trip limited: the setters change only the named flag on
\* every row of the name; active set to false and then to true restores the
\* table before the two calls exactly when every row of the name was active
\* before them.
C29_FlagOnlyAndRoundTripWhenActive ==
    /\ OnlyNamedFlagChanged
    /\ OffThenOn =>
         (TableOf(last.op) = last.previous.before
            <=> \A r \in last.previous.before : r.name = last.name => r.active)

\* Two Apps X of different owners were set inactive and active again, and
\* the table is as before the two calls.
C29_Witness ==
    /\ OffThenOn
    /\ last.op = "set_app_active_status"
    /\ \E a, b \in apps : /\ a.name = last.name
                          /\ b.name = last.name
                          /\ a.api_key_id # b.api_key_id
    /\ \E c \in apps : c.name # last.name
    /\ apps = last.previous.before

-----------------------------------------------------------------------------
(* lambda_seeding.py: seeding at start-up, driven by the seeding Lambda *)

\* An environment variable that is not set.
Unset == "<unset>"

\* os.getenv(name, default)
os_getenv(environ, name, default) ==
    IF environ[name] = Unset THEN default ELSE environ[name]

\* str.lower() on the values SKIP_AUTO_SEED takes here.
lower(value) ==
    IF value \in {"true", "True", "TRUE"} THEN "true" ELSE value

\* A seeding script: its name, its 'order' (NoInt when the key is absent)
\* and its 'enabled' flag.
SeedingScript(name, order, enabled) ==
    [name |-> name, order |-> order, enabled |-> enabled]

get_default_scripts == <<SeedingScript("run_essential_seeding", 1, TRUE)>>

\* x.get('order', 999)
order_of(script) == IF script.order = NoInt THEN 999 ELSE script.order

\* list.sort(key=order) is stable: a script goes after every script whose
\* order is not greater than its own.
RECURSIVE insert_by_order(_, _, _)
insert_by_order(sorted, script, i) ==
    IF i > Len(sorted) THEN Append(sorted, script)
    ELSE IF order_of(script) < order_of(sorted[i])
         THEN SubSeq(sorted, 1, i - 1) \o <<script>>
                \o SubSeq(sorted, i, Len(sorted))
         ELSE insert_by_order(sorted, script, i + 1)

RECURSIVE sort_by_order(_, _, _)
sort_by_order(scripts, i, sorted) ==
    IF i > Len(scripts) THEN sorted
    ELSE sort_by_order(scripts, i + 1, insert_by_order(sorted, scripts[i], 1))

\* [s for s in scripts if s.get('enabled', True)]
RECURSIVE enabled_of(_, _)
enabled_of(scripts, i) ==
    IF i > Len(scripts) THEN <<>>
    ELSE (IF scripts[i].enabled THEN <<scripts[i]>> ELSE <<>>)
           \o enabled_of(scripts, i + 1)

\* One call made on behalf of a script.
SeedingCall(call, script_name) == [call |-> call, script |-> script_name]

\* The data seeding a script name stands for.
seeding_of(script_name) ==
    IF script_name = "run_seed_db_sh" THEN "run_seed_db_script"
    ELSE "run_essential_seeding"

\* execute_seeding_script: schema creation first, data seeding only when it
\* returned True; a script of an unknown name runs nothing and succeeds.
\* failing is the set of calls that return False.
execute_seeding_script(script, failing) ==
    LET schema == SeedingCall("create_database_schema", script.name)
        seed == SeedingCall(seeding_of(script.name), script.name)
    IN  IF script.name \in {"run_seed_db_sh", "run_essential_seeding"}
        THEN IF schema \in failing
             THEN [success |-> FALSE, calls |-> <<schema>>]
             ELSE [success |-> seed \notin failing,
                   calls |-> <<schema, seed>>]
        ELSE [success |-> TRUE, calls |-> <<>>]

\* The loop over the enabled scripts: it stops at the first script that
\* returns False.
RECURSIVE execute_scripts(_, _, _, _, _)
execute_scripts(enabled_scripts, i, failing, executed, calls) ==
    IF i > Len(enabled_scripts)
    THEN [all_successful |-> TRUE, executed |-> executed, calls |-> calls]
    ELSE LET script == enabled_scripts[i]
             done == execute_seeding_script(script, failing)
         IN  IF ~done.success
             THEN [all_successful |-> FALSE,
                   executed |-> Append(executed, script),
                   calls |-> calls \o done.calls]
             ELSE execute_scripts(enabled_scripts, i + 1, failing,
                                  Append(executed, script),
                                  calls \o done.calls)

\* What the GET on the Lambda URL brings back: the request fails, or the body
\* is a JSON object with or without isSeeded, or JSON of another type.
LambdaReplies ==
    {"request_failed", "seeded", "not_seeded", "no_isSeeded", "not_an_object"}

\* check_seeding_status: response.json(), and {"isSeeded": False} for any
\* exception of the request.
check_seeding_status(reply) ==
    CASE reply = "request_failed" ->
           [is_object |-> TRUE, has_isSeeded |-> TRUE, isSeeded |-> FALSE]
      [] reply = "seeded" ->
           [is_object |-> TRUE, has_isSeeded |-> TRUE, isSeeded |-> TRUE]
      [] reply = "not_seeded" ->
           [is_object |-> TRUE, has_isSeeded |-> TRUE, isSeeded |-> FALSE]
      [] reply = "no_isSeeded" ->
           [is_object |-> TRUE, has_isSeeded |-> FALSE, isSeeded |-> FALSE]
      [] OTHER ->
           [is_object |-> FALSE, has_isSeeded |-> FALSE, isSeeded |-> FALSE]

\* What one run of lambda_based_seeding did: the scripts it executed, the
\* calls they made, the isSeeded values it posted to the Lambda, whether an
\* exception was caught inside and whether one left the function.
SeedingRun(executed, calls, reported, caught, raised) ==
    [executed |-> executed, calls |-> calls, reported |-> reported,
     caught |-> caught, raised |-> raised]

NoSeedingRun == SeedingRun(<<>>, <<>>, <<>>, FALSE, FALSE)

\* The body of the try block. status.get raises AttributeError when the
\* status is not a dict; update_seeding_status is called with True, and only
\* when every script returned True.
lambda_based_seeding_try(reply, scripts, failing) ==
    LET status == check_seeding_status(reply)
        is_seeded == IF status.has_isSeeded THEN status.isSeeded ELSE FALSE
        enabled_scripts == sort_by_order(enabled_of(scripts, 1), 1, <<>>)
        ran == execute_scripts(enabled_scripts, 1, failing, <<>>, <<>>)
    IN  IF ~status.is_object
        THEN SeedingRun(<<>>, <<>>, <<>>, FALSE, TRUE)
        ELSE IF is_seeded THEN NoSeedingRun
        ELSE SeedingRun(ran.executed, ran.calls,
                        IF ran.all_successful THEN <<TRUE>> ELSE <<>>,
                        FALSE, FALSE)

\* lambda_based_seeding: the two early returns, then the try block, whose
\* except clause logs and does not raise.
lambda_based_seeding(environ, reply, scripts, failing) ==
    LET skip_seed == lower(os_getenv(environ, "SKIP_AUTO_SEED", "false"))
        lambda_url == environ["SEEDING_LAMBDA_URL"]
        tried == lambda_based_seeding_try(reply, scripts, failing)
    IN  IF skip_seed = "true" THEN NoSeedingRun
        ELSE IF lambda_url \in {Unset, ""} THEN NoSeedingRun
        ELSE [tried EXCEPT !.caught = tried.raised, !.raised = FALSE]

\* One start-up of the server.
LambdaBasedSeeding(environ, reply, scripts, failing, update_success) ==
    /\ Idle
    /\ last' = [op |-> "lambda_based_seeding", environ |-> environ,
                reply |-> reply, scripts |-> scripts, failing |-> failing,
                update_success |-> update_success,
                run |-> lambda_based_seeding(environ, reply, scripts, failing)]
    /\ UNCHANGED vars_tables

Environs ==
    {[SKIP_AUTO_SEED |-> skip, SEEDING_LAMBDA_URL |-> url] :
        skip \in {Unset, "true", "TRUE", "false", "1"},
        url \in {Unset, "", "https://seeding.lambda"}}

\* The lists get_seeding_scripts can hand over: the default list it returns
\* today, and lists with several scripts, a disabled one, an absent 'order',
\* equal orders and a name execute_seeding_script does not know.
ScriptLists ==
    {get_default_scripts,
     <<>>,
     <<SeedingScript("run_seed_db_sh", 2, TRUE),
       SeedingScript("run_essential_seeding", 1, TRUE)>>,
     <<SeedingScript("run_seed_db_sh", 1, FALSE),
       SeedingScript("run_essential_seeding", 2, TRUE)>>,
     <<SeedingScript("run_essential_seeding", NoInt, TRUE),
       SeedingScript("run_custom", 5, TRUE),
       SeedingScript("run_seed_db_sh", 5, TRUE)>>}

\* The calls that can return False.
SeedingCalls ==
    {SeedingCall("create_database_schema", "run_seed_db_sh"),
     SeedingCall("run_seed_db_script", "run_seed_db_sh"),
     SeedingCall("create_database_schema", "run_essential_seeding"),
     SeedingCall("run_essential_seeding", "run_essential_seeding")}

NextSeeding ==
    \/ \E environ \in Environs, reply \in LambdaReplies :
       \E scripts \in ScriptLists, failing \in SUBSET SeedingCalls :
       \E update_success \in BOOLEAN :
         LambdaBasedSeeding(environ, reply, scripts, failing, update_success)
    \/ Respond

SpecSeeding == Init /\ [][NextSeeding]_vars

-----------------------------------------------------------------------------
(* Properties of lambda_based_seeding *)

\* The scripts of the last start-up that are enabled.
EnabledScripts == {s \in Range(last.scripts) : s.enabled}

\* A script one of whose calls returns False in the last start-up.
ScriptFails(script) == \E c \in last.failing : c.script = script.name

\* The last start-up was told not to seed: SKIP_AUTO_SEED is true, no Lambda
\* URL is set, or the Lambda reports isSeeded.
ToldNotToSeed ==
    \/ last.environ.SKIP_AUTO_SEED \in {"true", "True", "TRUE"}
    \/ last.environ.SEEDING_LAMBDA_URL \in {Unset, ""}
    \/ last.reply = "seeded"

\* The last start-up ran every enabled script up to the first that failed.
RanUpToFirstFailure ==
    LET executed == last.run.executed
    IN  \/ Range(executed) = EnabledScripts
        \/ /\ executed # <<>>
           /\ ScriptFails(executed[Len(executed)])

\* What C30 says of every start-up, whether or not it seeds: the executed
\* scripts are enabled ones, each once, in ascending order, none after one
\* that failed and none left out before a later one; data seeding starts only
\* after the script's schema creation returned True; isSeeded=true is posted
\* only when every enabled script ran and none failed; nothing is raised.
SeedingIsOrderly ==
    LET executed == last.run.executed
        calls == last.run.calls
    IN  /\ Range(executed) \subseteq EnabledScripts
        /\ \A i, j \in 1..Len(executed) :
              i < j => /\ order_of(executed[i]) <= order_of(executed[j])
                       /\ executed[i] # executed[j]
                       /\ ~ScriptFails(executed[i])
        /\ \A s \in EnabledScripts \ Range(executed) :
              \A e \in Range(executed) : order_of(e) <= order_of(s)
        /\ \A c \in Range(calls) : \E e \in Range(executed) : c.script = e.name
        /\ \A k \in 1..Len(calls) :
              calls[k].call # "create_database_schema" =>
                /\ SeedingCall("create_database_schema", calls[k].script)
                     \notin last.failing
                /\ \E j \in 1..(k - 1) :
                      calls[j] = SeedingCall("create_database_schema",
                                             calls[k].script)
        /\ last.run.reported # <<>> =>
              /\ last.run.reported = <<TRUE>>
              /\ Range(executed) = EnabledScripts
              /\ \A s \in EnabledScripts : ~ScriptFails(s)
        /\ ~last.run.raised

\* C30 as stated: no script runs when SKIP_AUTO_SEED is true, when no Lambda
\* URL is set or when the Lambda reports isSeeded; in every other start-up
\* the enabled scripts run in ascending order up to the first failure, data
\* seeding only after schema creation succeeded, isSeeded=true is reported
\* only if every script succeeded, and nothing is raised.
C30_SeedsUnlessToldNotTo ==
    last.op = "lambda_based_seeding" =>
      /\ SeedingIsOrderly
      /\ ToldNotToSeed => /\ last.run.executed = <<>>
                          /\ last.run.calls = <<>>
                          /\ last.run.reported = <<>>
      /\ ~ToldNotToSeed => RanUpToFirstFailure

\* The other start-ups limited to those where the Lambda's reply can be read:
\* the scripts run when the request failed or the reply is a JSON
\* object that does not report isSeeded; a reply that is not a JSON object
\* runs no script and posts nothing, and still nothing is raised.
SeedsUnlessToldNotToOrReplyUnreadable ==
    last.op = "lambda_based_seeding" =>
      /\ SeedingIsOrderly
      /\ (ToldNotToSeed \/ last.reply = "not_an_object") =>
           /\ last.run.executed = <<>>
           /\ last.run.calls = <<>>
           /\ last.run.reported = <<>>
      /\ (~ToldNotToSeed /\ last.reply # "not_an_object") =>
           /\ RanUpToFirstFailure
           /\ last.run.reported = <<TRUE>>
                <=> \A s \in EnabledScripts : ~ScriptFails(s)

\* A start-up that seeded is reachable: three scripts ran in ascending order, the one
\* without 'order' last, each after its schema creation, and isSeeded=true
\* was posted.
SeededInOrder ==
    /\ last.op = "lambda_based_seeding"
    /\ ~ToldNotToSeed
    /\ Len(last.run.executed) = 3
    /\ last.run.executed[3].order = NoInt
    /\ Len(last.run.calls) = 4
    /\ last.run.reported = <<TRUE>>

====
